---- MODULE Spec2Model ----
(***************************************************************************)
(* Verification model of the leaf game-server framework.                   *)
(*                                                                         *)
(* Part 1: the connection object (TCPConn / WSConn): the bounded write     *)
(*         queue, the writer task, Write / WriteMsg / Close / Destroy.     *)
(* Part 2: the TCP listener (TCPServer) and the WebSocket handler          *)
(*         (WSHandler / WSServer): accept loop, connection set, shutdown.  *)
(* Part 3: the dialers (TCPClient / WSClient).                             *)
(*                                                                         *)
(* Each part has its own next-state relation over its own variables; the   *)
(* variables of the other parts stay at their initial values.              *)
(***************************************************************************)
EXTENDS Integers, Sequences, FiniteSets, TLC

(***************************************************************************)
(* Bounds of the model.                                                    *)
(***************************************************************************)
\* largest write-queue capacity (pendingWriteNum) a connection is built with
MaxPending == 2
\* number of buffers the producers may get accepted on one connection
MaxWrites == 2
\* largest WSConn.maxMsgLen a connection is built with
MaxMsgLenBound == 2
\* number of transports that try to connect to one listener
MaxAttempts == 3
\* largest MaxConnNum a listener is started with
MaxConnNumBound == 2
\* number of transient accept errors in a row
MaxTempErrs == 2
\* largest ConnNum a client is started with
MaxDialers == 2
\* number of transports the dialers of one client get connected
MaxDials == 2
\* largest capacity of a chanrpc server's request queue
MaxChanCall == 2
\* largest capacity of a chanrpc client's async-reply queue
MaxAsynRet == 1
\* number of calls (synchronous, asynchronous, Go) issued in one behaviour
MaxCalls == 2
\* number of synchronous clients of the server
MaxSyncClients == 1
\* largest capacity of the skeleton's callback, timer, async-reply and service queues
MaxLen == 1
\* number of Go tasks and asynchronous calls a module submits in one behaviour
MaxTasks == 2
\* number of calls and timers that reach a module in one behaviour
MaxEvents == 2
\* number of timers made in one behaviour
MaxTimers == 3
\* number of (f, cb) pairs submitted to the Go helper in one behaviour
MaxGoTasks == 3
\* largest number of registered modules
MaxMods == 3
\* number of SetMsgLen calls made on one parser
MaxSetCalls == 2
\* number of Write calls made with one parser
MaxParserWrites == 2
\* length of the longest payload that is written byte by byte
MaxPayload == 3
\* number of years, from 2022 on, the instants given to CronExpr.Next lie in
MaxInputYears == 2
\* number of connections the gate accepts
MaxAgents == 2
\* number of messages the agents read from their connections, all together
MaxMsgs == 2
\* capacity of the request queue of the server the gate calls, when buffered
MaxGateLen == 2

(***************************************************************************)
(* Byte buffers.  A Go []byte is either nil or a (possibly empty) slice.   *)
(***************************************************************************)
Byte == {1}

Datas == {<<>>} \cup {<<x>> : x \in Byte}

Nil == [isNil |-> TRUE, data |-> <<>>]

Buf(d) == [isNil |-> FALSE, data |-> d]

Buffers == {Nil} \cup {Buf(d) : d \in Datas}

\* the argument vectors WriteMsg is called with
ArgVectors ==
    {<<>>} \cup {<<a>> : a \in Buffers} \cup {<<a, b>> : a, b \in Buffers \ {Buf(<<>>)}}

(***************************************************************************)
(* Go channel primitives on the write queue of a connection record.        *)
(* A send on a closed channel and a second close panic; a send on a full   *)
(* channel blocks the sender (which holds the connection lock).            *)
(***************************************************************************)
ChanSend(c, b) ==
    IF c.chanClosed THEN [c EXCEPT !.panicked = TRUE]
    ELSE IF Len(c.writeChan) >= c.cap THEN [c EXCEPT !.blocked = TRUE]
    ELSE [c EXCEPT !.writeChan = Append(@, b)]

ChanClose(c) ==
    IF c.chanClosed THEN [c EXCEPT !.panicked = TRUE]
    ELSE [c EXCEPT !.chanClosed = TRUE]

(***************************************************************************)
(* TCPConn.                                                                *)
(***************************************************************************)
\* the connection record right after newTCPConn (the writer task is pcW)
newTCPConn(pendingWriteNum) ==
    [writeChan |-> <<>>, cap |-> pendingWriteNum, chanClosed |-> FALSE,
     closeFlag |-> FALSE, connClosed |-> FALSE, linger0 |-> FALSE,
     blocked |-> FALSE, panicked |-> FALSE]

\* a doDestroy that closes the write queue whatever the closed flag says
doDestroyUnguarded(c) ==
    [ChanClose([c EXCEPT !.linger0 = TRUE, !.connClosed = TRUE]) EXCEPT !.closeFlag = TRUE]

doDestroy(c) ==
    LET c1 == [c EXCEPT !.linger0 = TRUE, !.connClosed = TRUE]
    IN  IF ~c1.closeFlag
        THEN [ChanClose(c1) EXCEPT !.closeFlag = TRUE]
        ELSE c1

\* a doWrite that drops the buffer when the queue is full
doWriteDrop(c, b) ==
    IF Len(c.writeChan) = c.cap THEN c ELSE ChanSend(c, b)

\* a doWrite that sends without looking at the queue's occupancy
doWriteBlocking(c, b) == ChanSend(c, b)

doWrite(c, b) ==
    IF Len(c.writeChan) = c.cap
    THEN doDestroy(c)
    ELSE ChanSend(c, b)

\* TCPConn.Destroy: lock; doDestroy; unlock
Destroy(c) == doDestroy(c)

\* a Close that closes the transport itself instead of leaving it to the writer
CloseAbrupt(c) ==
    IF c.closeFlag THEN c
    ELSE [doWrite(c, Nil) EXCEPT !.closeFlag = TRUE, !.connClosed = TRUE]

\* TCPConn.Close: lock; return if closed; doWrite(nil); closeFlag = true
Close(c) ==
    IF c.closeFlag THEN c
    ELSE [doWrite(c, Nil) EXCEPT !.closeFlag = TRUE]

\* a Write that does not look at the closed flag
WriteUnguarded(c, b) ==
    IF b.isNil THEN c ELSE doWrite(c, b)

\* TCPConn.Write: lock; return if closed or b == nil; doWrite(b)
Write(c, b) ==
    IF c.closeFlag \/ b.isNil THEN c
    ELSE doWrite(c, b)

(***************************************************************************)
(* WSConn.                                                                 *)
(***************************************************************************)
newWSConn(pendingWriteNum, maxMsgLen) ==
    [writeChan |-> <<>>, cap |-> pendingWriteNum, chanClosed |-> FALSE,
     closeFlag |-> FALSE, connClosed |-> FALSE, linger0 |-> FALSE,
     blocked |-> FALSE, panicked |-> FALSE, maxMsgLen |-> maxMsgLen]

wsDoDestroy(c) ==
    LET c1 == [c EXCEPT !.linger0 = TRUE, !.connClosed = TRUE]
    IN  IF ~c1.closeFlag
        THEN [ChanClose(c1) EXCEPT !.closeFlag = TRUE]
        ELSE c1

wsDoWrite(c, b) ==
    IF Len(c.writeChan) = c.cap
    THEN wsDoDestroy(c)
    ELSE ChanSend(c, b)

wsDestroy(c) == wsDoDestroy(c)

wsClose(c) ==
    IF c.closeFlag THEN c
    ELSE [wsDoWrite(c, Nil) EXCEPT !.closeFlag = TRUE]

RECURSIVE SumLen(_)
\* msgLen: the sum of len(args[i])
SumLen(args) ==
    IF args = <<>> THEN 0 ELSE Len(Head(args).data) + SumLen(Tail(args))

RECURSIVE Merge(_)
\* the merged message: the args copied one after the other
Merge(args) ==
    IF args = <<>> THEN <<>> ELSE Head(args).data \o Merge(Tail(args))

\* WSConn.WriteMsg: the connection after the call and the error returned
WriteMsg(c, args) ==
    IF c.closeFlag THEN [conn |-> c, err |-> "nil"]
    ELSE IF SumLen(args) > c.maxMsgLen
         THEN [conn |-> c, err |-> "message too long"]
    ELSE IF SumLen(args) < 1
         THEN [conn |-> c, err |-> "message too short"]
    ELSE IF Len(args) = 1
         THEN [conn |-> wsDoWrite(c, args[1]), err |-> "nil"]
    ELSE [conn |-> wsDoWrite(c, Buf(Merge(args))), err |-> "nil"]

(***************************************************************************)
(* State of one connection and its writer task.                            *)
(***************************************************************************)
VARIABLES
    proto,      \* "tcp": the connection is a TCPConn, "ws": a WSConn
    conn,       \* the connection record
    pcW,        \* the writer task: "range", "write", "close", "flag", "done"
    bufW,       \* the buffer the writer task has taken from the queue
    wire,       \* the buffers the transport has accepted, in order
    accepted,   \* history: the buffers the producers have put in the queue
    writeErr,   \* history: a transport write has failed
    lastOp,     \* history: the last operation and what it did
    called      \* history: how often Close and Destroy were called

connVars == <<proto, conn, pcW, bufW, wire, accepted, writeErr, lastOp, called>>

(***************************************************************************)
(* State of one listener: a TCPServer with its accept loop, or a WSServer   *)
(* with its WSHandler, whose ServeHTTP runs in one task per request.        *)
(***************************************************************************)
VARIABLES
    sProto,         \* "tcp": a TCPServer, "ws": a WSServer / WSHandler
    sMaxConnNum,    \* MaxConnNum after init / Start
    lnClosed,       \* the listener has been closed
    pcRun,          \* TCPServer.run: "start", "accept", "register", "spawn", "exited"
    cur,            \* the transport the accept loop has in hand (0: none)
    tempDelay,      \* the accept loop's tempDelay, in milliseconds
    tempErrs,       \* history: transient accept errors in a row
    wgLn,           \* TCPServer.wgLn
    wgConns,        \* TCPServer.wgConns / WSHandler.wg
    sConns,         \* the connection set
    sConnsNil,      \* the connection set has been set to nil
    sock,           \* per transport: "pending", "open", "closed"
    sConn,          \* per wrapped transport: its TCPConn / WSConn record
    agentPc,        \* per transport: where its per-connection task is
    pcClose,        \* Close: "idle", "lnClosed", "lock", "wait", "returned"
    sPanic,         \* a task has panicked
    registered,     \* history: the transports put in the connection set
    rejected,       \* history: the transports turned away at capacity
    newAgentCalls,  \* history: per transport, the calls of NewAgent
    runCalls,       \* history: per transport, the calls of the agent's Run
    onCloseCalls,   \* history: per transport, the calls of the agent's OnClose
    lastS           \* history: the last step and its transport

srvVars == <<sProto, sMaxConnNum, lnClosed, pcRun, cur, tempDelay, tempErrs, wgLn,
             wgConns, sConns, sConnsNil, sock, sConn, agentPc, pcClose, sPanic,
             registered, rejected, newAgentCalls, runCalls, onCloseCalls, lastS>>

(***************************************************************************)
(* State of one client (TCPClient / WSClient) and its dialer tasks.         *)
(***************************************************************************)
VARIABLES
    cProto,         \* "tcp": a TCPClient, "ws": a WSClient
    cConnNum,       \* ConnNum after init: the number of dialer tasks
    cAuto,          \* AutoReconnect
    cCloseFlag,     \* client.closeFlag
    cConns,         \* the connection set
    cConnsNil,      \* the connection set is nil
    cWg,            \* client.wg
    pcDial,         \* per dialer: "dial", "lock", "agent", "running", "cleanup",
                    \*             "closed", "deleted", "onclose", "done"
    dConn,          \* per dialer: the transport it has in hand (0: none)
    cSock,          \* per transport: "pending", "open", "closed"
    cConn,          \* per wrapped transport: its TCPConn / WSConn record
    pcCClose,       \* Close: "idle", "wait", "returned"
    cPanic,         \* a task has panicked
    cRegistered,    \* history: the transports put in the connection set
    cNewAgentCalls  \* history: per transport, the calls of NewAgent

cliVars == <<cProto, cConnNum, cAuto, cCloseFlag, cConns, cConnsNil, cWg, pcDial, dConn,
             cSock, cConn, pcCClose, cPanic, cRegistered, cNewAgentCalls>>

(***************************************************************************)
(* State of one chanrpc server, the loop that consumes its request queue,  *)
(* its synchronous clients, one asynchronous client and one task that      *)
(* uses Server.Go.                                                         *)
(***************************************************************************)
VARIABLES
    rCap,           \* cap(s.ChanCall)
    ChanCall,       \* s.ChanCall: the CallInfos enqueued and not yet dequeued
    rClosed,        \* s.ChanCall has been closed
    pcLoop,         \* the consuming loop: "select", "exec", "ret", "drain", "returned"
    curCi,          \* the CallInfo the loop has dequeued
    curRi,          \* the RetInfo the loop is about to send ("none": no reply)
    pcCall,         \* per synchronous client: "idle", "send", "wait"
    callCi,         \* per synchronous client: the CallInfo of its call
    chanSyncRet,    \* per synchronous client: c.chanSyncRet (capacity 1)
    lastRet,        \* per synchronous client: what its last call returned
    aCap,           \* cap(c.ChanAsynRet) of the asynchronous client
    ChanAsynRet,    \* c.ChanAsynRet
    pendingAsynCall,\* c.pendingAsynCall
    pcGo,           \* the task using Server.Go: "idle", "send"
    goCi,           \* the CallInfo Server.Go is sending
    nextUid,        \* history: the number of calls issued so far
    enq,            \* history: the calls in the order they entered the request queue
    execd,          \* history: the calls in the order the loop executed them
    runs,           \* history: per call, the function runs and the arguments seen
    replies,        \* history: per call, the replies sent for it
    issued,         \* history: per synchronous client, its calls in issue order
    retd,           \* history: per synchronous client, its calls in return order
    cbLog,          \* history: the callbacks executed, with what they were given
    lastR           \* history: the last operation of a client and its outcome

rpcVars == <<rCap, ChanCall, rClosed, pcLoop, curCi, curRi, pcCall, callCi, chanSyncRet,
             lastRet, aCap, ChanAsynRet, pendingAsynCall, pcGo, goCi, nextUid, enq, execd,
             runs, replies, issued, retd, cbLog, lastR>>

(***************************************************************************)
(* The module skeleton: Skeleton.Run, the one loop of a module, with its   *)
(* service and command chanrpc servers, its chanrpc client, its Go         *)
(* scheduler and its timer dispatcher; the tasks of other modules that     *)
(* call it and answer it; module.Destroy.                                  *)
(***************************************************************************)
VARIABLES
    GoLen,                  \* s.GoLen = cap(s.g.ChanCb)
    TimerDispatcherLen,     \* s.TimerDispatcherLen = cap(s.dispatcher.ChanTimer)
    AsynCallLen,            \* s.AsynCallLen = cap(s.client.ChanAsynRet)
    serverCap,              \* cap(s.server.ChanCall): 0 unless ChanRPCServer is given
    closeSig,               \* the number of values in closeSig (capacity 1)
    pcDestroy,              \* module.Destroy: "idle", "wait", "done"
    pcSkRun,                \* Skeleton.Run: "select", "commandClose", "serverClose",
                            \* "idleCheck", "gClose", "clientClose", "returned"
    running,                \* the handlers that are executing
    serverChanCall,         \* s.server.ChanCall
    serverClosed,           \* s.server.ChanCall is closed
    commandClosed,          \* s.commandServer.ChanCall is closed
    clientChanAsynRet,      \* s.client.ChanAsynRet
    clientPendingAsynCall,  \* s.client.pendingAsynCall
    gChanCb,                \* s.g.ChanCb
    gPendingGo,             \* s.g.pendingGo
    dispatcherChanTimer,    \* s.dispatcher.ChanTimer
    goTasks,                \* the Go tasks whose goroutine has not sent its callback
    asynOut,                \* the asynchronous calls another server has yet to answer
    nextTask,               \* history: the Go tasks and asynchronous calls submitted
    events,                 \* history: the calls and timers that reached the module
    cbDone,                 \* history: the tasks and calls whose callback was executed
    drained,                \* history: those whose callback was taken after the close signal
    closeLog                \* history: the servers in the order Run closed them

sklVars == <<GoLen, TimerDispatcherLen, AsynCallLen, serverCap, closeSig, pcDestroy, pcSkRun,
             running, serverChanCall, serverClosed, commandClosed, clientChanAsynRet,
             clientPendingAsynCall, gChanCb, gPendingGo, dispatcherChanTimer, goTasks,
             asynOut, nextTask, events, cbDone, drained, closeLog>>

(***************************************************************************)
(* The timer dispatcher: Dispatcher.AfterFunc, the clock goroutine of each *)
(* timer, Timer.Stop and Timer.Cb as the owning loop calls them.           *)
(***************************************************************************)
VARIABLES
    tmCap,      \* cap(disp.ChanTimer)
    ChanTimer,  \* disp.ChanTimer: the timers that fired and wait for the loop
    tClock,     \* per timer, t.t: "none", "armed", "expired", "sent", "stopped"
    tCb,        \* per timer, t.cb: "set", "cron" (the closure of CronFunc) or "nil"
    curT,       \* the timer whose Cb the loop is executing (0: none)
    pcT,        \* Timer.Cb: "idle", "cb" (inside t.cb()), "defer"; inside the
                \* closure of CronFunc "next" (at its first statement),
                \* "deferred" (at its return), "user" (inside _cb)
    nTimers,    \* history: the timers made so far
    tCalls,     \* history: per timer, how often its callback was invoked
    tStopped,   \* history: the timers on which Stop was called
    cronT,      \* c.t of the Cron (0: nil)
    cronLog     \* history: what happened to the Cron, each with its timer

tmVars == <<tmCap, ChanTimer, tClock, tCb, curT, pcT, nTimers, tCalls, tStopped, cronT, cronLog>>

(***************************************************************************)
(* The Go helper: Go.Go and LinearContext.Go, the goroutines they start,   *)
(* and Go.Cb as the owning loop calls it.                                  *)
(***************************************************************************)
VARIABLES
    gCap,           \* cap(g.ChanCb)
    ChanCb,         \* g.ChanCb: the callbacks (by pair) that wait for the loop
    pendingGo,      \* g.pendingGo
    linearGo,       \* c.linearGo: the pairs of the LinearContext not yet taken
    mutexExecution, \* c.mutexExecution: the goroutine that holds it (0: free)
    goKind,         \* per pair: "none", "go" (Go.Go), "linear" (LinearContext.Go)
    goPc,           \* per goroutine: "none", "spawned", "locked", "running",
                    \* "returned", "panicked", "sent" (cb sent, execution
                    \* mutex still held), "done"
    goPair,         \* per goroutine: the pair whose f it runs (0: none yet)
    curCb,          \* the pair whose callback the loop is executing (0: none)
    pcG,            \* Go.Cb: "idle", "cb"
    nGo,            \* history: the pairs submitted so far, numbered in order
    fLog,           \* history: the pairs in the order their f started
    fActive,        \* history: the pairs whose f is executing
    cbPut,          \* history: per pair, how often its cb was put on g.ChanCb
    cbRuns          \* history: per pair, who executed its cb

goVars == <<gCap, ChanCb, pendingGo, linearGo, mutexExecution, goKind, goPc, goPair, curCb,
            pcG, nGo, fLog, fActive, cbPut, cbRuns>>

(***************************************************************************)
(* The module registry: module.Register, Init, Destroy and the goroutine   *)
(* run of each module.                                                     *)
(***************************************************************************)
VARIABLES
    nMods,          \* len(mods): the modules are numbered in registration order
    pcModInit,      \* Init: [at |-> "idle", "onInit", "inOnInit", "start",
                    \* "returned", "panicked", i |-> the module it is at]
    pcModDestroy,   \* Destroy: [at |-> "idle", "send", "wait", "destroy",
                    \* "inOnDestroy", "returned", i |-> the module it is at]
    modRun,         \* per module, run(m): "none", "spawned", "running",
                    \* "returned" (Run has returned), "done" (wg.Done called)
    modWg,          \* per module, the counter of m.wg
    modCloseSig,    \* per module, the number of values in m.closeSig (capacity 1)
    onInitLog,      \* history: the modules in the order OnInit was called
    runStarts,      \* history: per module, how often a goroutine run(m) was started
    sigLog,         \* history: the modules in the order the close signal was sent
    onDestroyLog,   \* history: the modules in the order OnDestroy was called
    onDestroyDone,  \* history: the modules whose OnDestroy has ended
    onDestroyPanics \* history: the modules whose OnDestroy has panicked

modVars == <<nMods, pcModInit, pcModDestroy, modRun, modWg, modCloseSig, onInitLog,
             runStarts, sigLog, onDestroyLog, onDestroyDone, onDestroyPanics>>

(***************************************************************************)
(* The message parser of the TCP transport: a MsgParser, the TCPConn it    *)
(* writes to and the calls of SetMsgLen, SetByteOrder, Write and Read.     *)
(***************************************************************************)
VARIABLES
    parser,         \* the MsgParser: [lenMsgLen, minMsgLen, maxMsgLen, littleEndian]
    nSetCalls,      \* the number of SetMsgLen calls made
    nWrites,        \* the number of Write calls made
    pConn,          \* the TCPConn that Write is called with
    pWrote,         \* the last Write: [op, args, err, handed |-> the buffers
                    \* it passed to conn.Write]
    pReadRes        \* the last Read: [op, err, data]

parVars == <<parser, nSetCalls, nWrites, pConn, pWrote, pReadRes>>

(***************************************************************************)
(* The cron expression: one call of CronExpr.Next.                         *)
(***************************************************************************)
VARIABLES
    cExpr,          \* the CronExpr: each field the set of the bits of its mask
    cT0,            \* the instant Next was called with
    cT,             \* the local variable t of Next
    cYear,          \* the local variable year of Next
    initFlag,       \* the local variable initFlag of Next
    pcNext,         \* where Next is: "idle", "start", "retry", "month", "day",
                    \* "hour", "minute", "second", "done"
    cRes,           \* the instant Next returned
    cFields,        \* the six fields NewCronExpr is called with, as written
    cMatch          \* what matchDay returned

cronVars == <<cExpr, cT0, cT, cYear, initFlag, pcNext, cRes, cFields, cMatch>>

(***************************************************************************)
(* The gate: the agents of the accepted connections and the chanrpc server *)
(* of the module that gate.AgentChanRPC and the message router name.       *)
(***************************************************************************)
VARIABLES
    gtSrv,      \* the server: cap(ChanCall), whether ChanCall is closed, and
                \* the call its loop is executing (NoGateCall: none)
    gtQueue,    \* s.ChanCall
    gtAg,       \* per agent: where its code is ("none", "new", "run", "route",
                \* "onclose", "wait", "done"), the messages it has read, and
                \* the reply on the chanSyncRet of its Call0
    gtEnq,      \* history: the calls enqueued on s.ChanCall
    gtExec      \* history: the calls the loop of the module has executed

gateVars == <<gtSrv, gtQueue, gtAg, gtEnq, gtExec>>

vars ==
    <<connVars, srvVars, cliVars, rpcVars, sklVars, tmVars, goVars, modVars, parVars, cronVars,
      gateVars>>

NoOp == [name |-> "none", outcome |-> "none", argLen |-> 0, err |-> "nil"]

ConnInit ==
    /\ proto \in {"tcp", "ws"}
    /\ \E p \in 1..MaxPending :
          IF proto = "tcp"
          THEN conn = newTCPConn(p)
          ELSE \E m \in 1..MaxMsgLenBound : conn = newWSConn(p, m)
    /\ pcW = "range"
    /\ bufW = Nil
    /\ wire = <<>>
    /\ accepted = <<>>
    /\ writeErr = FALSE
    /\ lastOp = NoOp
    /\ called = [Close |-> 0, Destroy |-> 0]

\* a producer takes the connection lock; one stuck in a send never releases it
Unlocked == ~conn.blocked /\ ~conn.panicked

\* history: what a producer call did to the connection c, leaving c2
Outcome(c, c2) ==
    IF c2.panicked THEN "panicked"
    ELSE IF c2.blocked THEN "blocked"
    ELSE IF Len(c2.writeChan) > Len(c.writeChan) THEN "enqueued"
    ELSE IF c2 = c THEN "nothing"
    ELSE "destroyed"

\* history: how often Close and Destroy were called (counted up to 2)
Count(name) ==
    IF name \in {"Close", "Destroy"} /\ called[name] < 2
    THEN [called EXCEPT ![name] = @ + 1]
    ELSE called

\* a producer call name(arg), arg of length argLen (-1: nil), that leaves the
\* connection c2 and returns err; buffers that Write or WriteMsg put in the
\* queue are added to the history
Call(name, argLen, c2, err) ==
    /\ conn' = c2
    /\ lastOp' = [name |-> name, outcome |-> Outcome(conn, c2), argLen |-> argLen, err |-> err]
    /\ called' = Count(name)
    /\ accepted' = IF Outcome(conn, c2) = "enqueued" /\ name \in {"Write", "WriteMsg"}
                   THEN Append(accepted, c2.writeChan[Len(c2.writeChan)].data)
                   ELSE accepted
    /\ Len(accepted') <= MaxWrites
    /\ UNCHANGED <<proto, pcW, bufW, wire, writeErr>>
    /\ UNCHANGED <<srvVars, cliVars, rpcVars, sklVars, tmVars, goVars, modVars, parVars, cronVars, gateVars>>

CallWrite ==
    /\ proto = "tcp" /\ Unlocked
    /\ \E b \in Buffers : Call("Write", IF b.isNil THEN -1 ELSE Len(b.data), Write(conn, b), "nil")

CallWriteMsg ==
    /\ proto = "ws" /\ Unlocked
    /\ \E args \in ArgVectors :
          LET r == WriteMsg(conn, args)
          IN  Call("WriteMsg", SumLen(args), r.conn, r.err)

CallClose ==
    /\ Unlocked
    /\ Call("Close", 0, IF proto = "tcp" THEN Close(conn) ELSE wsClose(conn), "nil")

CallDestroy ==
    /\ Unlocked
    /\ Call("Destroy", 0, IF proto = "tcp" THEN Destroy(conn) ELSE wsDestroy(conn), "nil")

(***************************************************************************)
(* The writer task started by newTCPConn / newWSConn:                      *)
(*   for b := range writeChan { if b == nil {break}; if write fails {break}}*)
(*   conn.Close(); Lock(); closeFlag = true; Unlock()                      *)
(***************************************************************************)
WriterStep(name) ==
    /\ lastOp' = [name |-> name, outcome |-> "none", argLen |-> 0, err |-> "nil"]
    /\ UNCHANGED <<proto, accepted, called>>
    /\ UNCHANGED <<srvVars, cliVars, rpcVars, sklVars, tmVars, goVars, modVars, parVars, cronVars, gateVars>>

\* a receive that takes the newest buffer of the queue instead of the oldest
WriterRecvNewest ==
    /\ pcW = "range"
    /\ IF conn.writeChan # <<>>
       THEN /\ conn' = [conn EXCEPT !.writeChan = SubSeq(@, 1, Len(@) - 1)]
            /\ bufW' = conn.writeChan[Len(conn.writeChan)]
            /\ pcW' = IF conn.writeChan[Len(conn.writeChan)].isNil THEN "close" ELSE "write"
       ELSE /\ conn.chanClosed
            /\ pcW' = "close"
            /\ UNCHANGED <<conn, bufW>>
    /\ UNCHANGED <<wire, writeErr>>
    /\ WriterStep("recv")

\* the range statement receives the next buffer, or ends on a closed, drained queue
WriterRecv ==
    /\ pcW = "range"
    /\ IF conn.writeChan # <<>>
       THEN /\ conn' = [conn EXCEPT !.writeChan = Tail(@)]
            /\ bufW' = Head(conn.writeChan)
            /\ pcW' = IF Head(conn.writeChan).isNil THEN "close" ELSE "write"
       ELSE /\ conn.chanClosed
            /\ pcW' = "close"
            /\ UNCHANGED <<conn, bufW>>
    /\ UNCHANGED <<wire, writeErr>>
    /\ WriterStep("recv")

\* conn.Write(b) succeeds: the transport is open and takes the buffer
WriterWriteOk ==
    /\ pcW = "write"
    /\ ~conn.connClosed
    /\ wire' = Append(wire, bufW.data)
    /\ pcW' = "range"
    /\ UNCHANGED <<conn, bufW, writeErr>>
    /\ WriterStep("write")

\* conn.Write(b) fails: the transport is closed, or the peer is gone
WriterWriteErr ==
    /\ pcW = "write"
    /\ writeErr' = TRUE
    /\ pcW' = "close"
    /\ UNCHANGED <<conn, bufW, wire>>
    /\ WriterStep("writeErr")

\* conn.Close() after the loop
WriterConnClose ==
    /\ pcW = "close"
    /\ conn' = [conn EXCEPT !.connClosed = TRUE]
    /\ pcW' = "flag"
    /\ UNCHANGED <<bufW, wire, writeErr>>
    /\ WriterStep("connClose")

\* Lock(); closeFlag = true; Unlock()
WriterSetFlag ==
    /\ pcW = "flag"
    /\ Unlocked
    /\ conn' = [conn EXCEPT !.closeFlag = TRUE]
    /\ pcW' = "done"
    /\ UNCHANGED <<bufW, wire, writeErr>>
    /\ WriterStep("setFlag")

Writer == WriterRecv \/ WriterWriteOk \/ WriterWriteErr \/ WriterConnClose \/ WriterSetFlag

ConnNext == CallWrite \/ CallWriteMsg \/ CallClose \/ CallDestroy \/ Writer

(***************************************************************************)
(* The listener.                                                           *)
(***************************************************************************)
Transports == 1..MaxAttempts

\* tempDelay after one more transient accept error: 5 ms, doubled, at most 1 s
TempDelayStart == 5

TempDelayMax == 1000

NextTempDelay(d) ==
    LET d2 == IF d = 0 THEN TempDelayStart ELSE d * 2
    IN  IF d2 > TempDelayMax THEN TempDelayMax ELSE d2

\* an at-capacity test that lets one connection too many in
AtCapacityOffByOne(n, max) == n > max

\* len(server.conns) >= server.MaxConnNum
AtCapacity(n, max) == n >= max

SrvInit ==
    /\ sProto \in {"tcp", "ws"}
    /\ sMaxConnNum \in 1..MaxConnNumBound
    /\ lnClosed = FALSE
    /\ pcRun = IF sProto = "tcp" THEN "start" ELSE "none"
    /\ cur = 0
    /\ tempDelay = 0
    /\ tempErrs = 0
    /\ wgLn = 0
    /\ wgConns = 0
    /\ sConns = {}
    /\ sConnsNil = FALSE
    /\ sock = [c \in Transports |-> "pending"]
    /\ sConn = << >>
    /\ agentPc = [c \in Transports |-> "none"]
    /\ pcClose = "idle"
    /\ sPanic = FALSE
    /\ registered = {}
    /\ rejected = {}
    /\ newAgentCalls = [c \in Transports |-> 0]
    /\ runCalls = [c \in Transports |-> 0]
    /\ onCloseCalls = [c \in Transports |-> 0]
    /\ lastS = [name |-> "none", c |-> 0]

\* a step of a task of the listener; a panic ends the process
Step(name, c) ==
    /\ ~sPanic
    /\ lastS' = [name |-> name, c |-> c]
    /\ UNCHANGED <<connVars, cliVars, rpcVars, sklVars, tmVars, goVars, modVars, parVars, cronVars, gateVars>>

\* TCPServer.run starts: wgLn.Add(1); defer wgLn.Done()
RunStart ==
    /\ sProto = "tcp" /\ pcRun = "start"
    /\ wgLn' = wgLn + 1
    /\ pcRun' = "accept"
    /\ Step("runStart", 0)
    /\ UNCHANGED <<sProto, sMaxConnNum, lnClosed, cur, tempDelay, tempErrs, wgConns, sConns,
                   sConnsNil, sock, sConn, agentPc, pcClose, sPanic, registered, rejected,
                   newAgentCalls, runCalls, onCloseCalls>>

\* ln.Accept() returns a transport; tempDelay = 0
Accept ==
    /\ pcRun = "accept" /\ ~lnClosed
    /\ \E c \in Transports :
          /\ sock[c] = "pending"
          /\ \A c2 \in Transports : c2 < c => sock[c2] # "pending"
          /\ sock' = [sock EXCEPT ![c] = "open"]
          /\ cur' = c
          /\ Step("accept", c)
    /\ tempDelay' = 0
    /\ tempErrs' = 0
    /\ pcRun' = "register"
    /\ UNCHANGED <<sProto, sMaxConnNum, lnClosed, wgLn, wgConns, sConns, sConnsNil, sConn,
                   agentPc, pcClose, sPanic, registered, rejected, newAgentCalls, runCalls,
                   onCloseCalls>>

\* ln.Accept() fails with a temporary error: back off, sleep and retry
AcceptTemporary ==
    /\ pcRun = "accept" /\ ~lnClosed
    /\ tempErrs < MaxTempErrs
    /\ tempErrs' = tempErrs + 1
    /\ tempDelay' = NextTempDelay(tempDelay)
    /\ Step("acceptTemporary", 0)
    /\ UNCHANGED <<sProto, sMaxConnNum, lnClosed, pcRun, cur, wgLn, wgConns, sConns,
                   sConnsNil, sock, sConn, agentPc, pcClose, sPanic, registered, rejected,
                   newAgentCalls, runCalls, onCloseCalls>>

\* ln.Accept() fails for good (the listener is closed, or another error):
\* run returns and its deferred wgLn.Done() runs
AcceptFatal ==
    /\ pcRun = "accept"
    /\ pcRun' = "exited"
    /\ wgLn' = wgLn - 1
    /\ Step("acceptFatal", 0)
    /\ UNCHANGED <<sProto, sMaxConnNum, lnClosed, cur, tempDelay, tempErrs, wgConns, sConns,
                   sConnsNil, sock, sConn, agentPc, pcClose, sPanic, registered, rejected,
                   newAgentCalls, runCalls, onCloseCalls>>

\* under mutexConns: at capacity the transport is closed and the loop goes on,
\* otherwise the transport enters the connection set
Register ==
    /\ pcRun = "register"
    /\ IF AtCapacity(Cardinality(sConns), sMaxConnNum)
       THEN /\ sock' = [sock EXCEPT ![cur] = "closed"]
            /\ rejected' = rejected \cup {cur}
            /\ pcRun' = "accept"
            /\ cur' = 0
            /\ Step("reject", cur)
            /\ UNCHANGED <<sConns, registered, sPanic>>
       ELSE /\ IF sConnsNil
               THEN sPanic' = TRUE /\ UNCHANGED <<sConns, registered>>
               ELSE /\ sConns' = sConns \cup {cur}
                    /\ registered' = registered \cup {cur}
                    /\ UNCHANGED sPanic
            /\ pcRun' = IF sConnsNil THEN "exited" ELSE "spawn"
            /\ Step("register", cur)
            /\ UNCHANGED <<sock, rejected, cur>>
    /\ UNCHANGED <<sProto, sMaxConnNum, lnClosed, tempDelay, tempErrs, wgLn, wgConns,
                   sConnsNil, sConn, agentPc, pcClose, newAgentCalls, runCalls, onCloseCalls>>

\* the record of a newly wrapped transport c
Wrap(c) ==
    IF sProto = "tcp" THEN newTCPConn(MaxPending) ELSE newWSConn(MaxPending, MaxMsgLenBound)

\* wgConns.Add(1); newTCPConn; NewAgent(tcpConn); go func() {...}()
Spawn ==
    /\ pcRun = "spawn"
    /\ wgConns' = wgConns + 1
    /\ sConn' = sConn @@ (cur :> Wrap(cur))
    /\ newAgentCalls' = [newAgentCalls EXCEPT ![cur] = @ + 1]
    /\ agentPc' = [agentPc EXCEPT ![cur] = "created"]
    /\ pcRun' = "accept"
    /\ cur' = 0
    /\ Step("newAgent", cur)
    /\ UNCHANGED <<sProto, sMaxConnNum, lnClosed, tempDelay, tempErrs, wgLn, sConns,
                   sConnsNil, sock, pcClose, sPanic, registered, rejected, runCalls,
                   onCloseCalls>>

\* the per-connection task starts and calls agent.Run()
AgentRun ==
    \E c \in Transports :
        /\ agentPc[c] = "created"
        /\ agentPc' = [agentPc EXCEPT ![c] = "running"]
        /\ runCalls' = [runCalls EXCEPT ![c] = @ + 1]
        /\ Step("run", c)
        /\ UNCHANGED <<sProto, sMaxConnNum, lnClosed, pcRun, cur, tempDelay, tempErrs, wgLn,
                       wgConns, sConns, sConnsNil, sock, sConn, pcClose, sPanic, registered,
                       rejected, newAgentCalls, onCloseCalls>>

\* agent.Run() returns: its read failed, or the agent chose to stop
AgentRunReturns ==
    \E c \in Transports :
        /\ agentPc[c] = "running"
        /\ agentPc' = [agentPc EXCEPT ![c] = "cleanup"]
        /\ Step("runReturns", c)
        /\ UNCHANGED <<sProto, sMaxConnNum, lnClosed, pcRun, cur, tempDelay, tempErrs, wgLn,
                       wgConns, sConns, sConnsNil, sock, sConn, pcClose, sPanic, registered,
                       rejected, newAgentCalls, runCalls, onCloseCalls>>

\* the connection record of c, its transport as it is now
ConnOf(c) == [sConn[c] EXCEPT !.connClosed = (sock[c] = "closed")]

\* cleanup: tcpConn.Close() / wsConn.Close()
AgentConnClose ==
    \E c \in Transports :
        /\ agentPc[c] = "cleanup"
        /\ LET c2 == IF sProto = "tcp" THEN Close(ConnOf(c)) ELSE wsClose(ConnOf(c))
           IN  /\ sConn' = [sConn EXCEPT ![c] = c2]
               /\ sock' = [sock EXCEPT ![c] = IF c2.connClosed THEN "closed" ELSE @]
        /\ agentPc' = [agentPc EXCEPT ![c] = "closed"]
        /\ Step("connClose", c)
        /\ UNCHANGED <<sProto, sMaxConnNum, lnClosed, pcRun, cur, tempDelay, tempErrs, wgLn,
                       wgConns, sConns, sConnsNil, pcClose, sPanic, registered, rejected,
                       newAgentCalls, runCalls, onCloseCalls>>

\* cleanup: under mutexConns, delete(conns, conn); on a nil map delete does nothing
AgentDelete ==
    \E c \in Transports :
        /\ agentPc[c] = "closed"
        /\ sConns' = sConns \ {c}
        /\ agentPc' = [agentPc EXCEPT ![c] = "deleted"]
        /\ Step("delete", c)
        /\ UNCHANGED <<sProto, sMaxConnNum, lnClosed, pcRun, cur, tempDelay, tempErrs, wgLn,
                       wgConns, sConnsNil, sock, sConn, pcClose, sPanic, registered,
                       rejected, newAgentCalls, runCalls, onCloseCalls>>

\* an OnClose that is invoked before the connection left the connection set
AgentOnCloseEarly ==
    \E c \in Transports :
        /\ agentPc[c] \in {"closed", "deleted"}
        /\ onCloseCalls' = [onCloseCalls EXCEPT ![c] = @ + 1]
        /\ agentPc' = [agentPc EXCEPT ![c] = "onclose"]
        /\ Step("onClose", c)
        /\ UNCHANGED <<sProto, sMaxConnNum, lnClosed, pcRun, cur, tempDelay, tempErrs, wgLn,
                       wgConns, sConns, sConnsNil, sock, sConn, pcClose, sPanic, registered,
                       rejected, newAgentCalls, runCalls>>

\* cleanup: agent.OnClose() is invoked
AgentOnClose ==
    \E c \in Transports :
        /\ agentPc[c] = "deleted"
        /\ onCloseCalls' = [onCloseCalls EXCEPT ![c] = @ + 1]
        /\ agentPc' = [agentPc EXCEPT ![c] = "onclose"]
        /\ Step("onClose", c)
        /\ UNCHANGED <<sProto, sMaxConnNum, lnClosed, pcRun, cur, tempDelay, tempErrs, wgLn,
                       wgConns, sConns, sConnsNil, sock, sConn, pcClose, sPanic, registered,
                       rejected, newAgentCalls, runCalls>>

\* agent.OnClose() returns; wgConns.Done() (TCP), the deferred wg.Done() (WS)
AgentDone ==
    \E c \in Transports :
        /\ agentPc[c] = "onclose"
        /\ agentPc' = [agentPc EXCEPT ![c] = "done"]
        /\ wgConns' = wgConns - 1
        /\ Step("taskDone", c)
        /\ UNCHANGED <<sProto, sMaxConnNum, lnClosed, pcRun, cur, tempDelay, tempErrs, wgLn,
                       sConns, sConnsNil, sock, sConn, pcClose, sPanic, registered, rejected,
                       newAgentCalls, runCalls, onCloseCalls>>

(***************************************************************************)
(* WSHandler.ServeHTTP, one task per request.  The HTTP server goes on     *)
(* serving the connections it accepted before its listener was closed.     *)
(***************************************************************************)
\* the request is not a GET (405), or the upgrade fails: no WebSocket transport
WSRefuse ==
    /\ sProto = "ws"
    /\ \E c \in Transports :
          /\ sock[c] = "pending"
          /\ \A c2 \in Transports : c2 < c => sock[c2] # "pending"
          /\ sock' = [sock EXCEPT ![c] = "refused"]
          /\ Step("refuse", c)
    /\ UNCHANGED <<sProto, sMaxConnNum, lnClosed, pcRun, cur, tempDelay, tempErrs, wgLn,
                   wgConns, sConns, sConnsNil, sConn, agentPc, pcClose, sPanic, registered,
                   rejected, newAgentCalls, runCalls, onCloseCalls>>

\* a GET is upgraded to a WebSocket transport; SetReadLimit(maxMsgLen)
WSUpgrade ==
    /\ sProto = "ws"
    /\ \E c \in Transports :
          /\ sock[c] = "pending"
          /\ \A c2 \in Transports : c2 < c => sock[c2] # "pending"
          /\ sock' = [sock EXCEPT ![c] = "open"]
          /\ agentPc' = [agentPc EXCEPT ![c] = "upgraded"]
          /\ Step("upgrade", c)
    /\ UNCHANGED <<sProto, sMaxConnNum, lnClosed, pcRun, cur, tempDelay, tempErrs, wgLn,
                   wgConns, sConns, sConnsNil, sConn, pcClose, sPanic, registered,
                   rejected, newAgentCalls, runCalls, onCloseCalls>>

\* handler.wg.Add(1); defer handler.wg.Done()
WSAdd ==
    \E c \in Transports :
        /\ agentPc[c] = "upgraded"
        /\ wgConns' = wgConns + 1
        /\ agentPc' = [agentPc EXCEPT ![c] = "counted"]
        /\ Step("wgAdd", c)
        /\ UNCHANGED <<sProto, sMaxConnNum, lnClosed, pcRun, cur, tempDelay, tempErrs,
                       wgLn, sConns, sConnsNil, sock, sConn, pcClose, sPanic, registered,
                       rejected, newAgentCalls, runCalls, onCloseCalls>>

\* under mutexConns: a nil connection set or a full one closes the transport and
\* returns (the deferred wg.Done() runs), otherwise the transport enters the set
WSRegister ==
    \E c \in Transports :
        /\ agentPc[c] = "counted"
        /\ IF sConnsNil \/ AtCapacity(Cardinality(sConns), sMaxConnNum)
           THEN /\ sock' = [sock EXCEPT ![c] = "closed"]
                /\ rejected' = IF sConnsNil THEN rejected ELSE rejected \cup {c}
                /\ agentPc' = [agentPc EXCEPT ![c] = "done"]
                /\ wgConns' = wgConns - 1
                /\ Step(IF sConnsNil THEN "shut" ELSE "reject", c)
                /\ UNCHANGED <<sConns, registered>>
           ELSE /\ sConns' = sConns \cup {c}
                /\ registered' = registered \cup {c}
                /\ agentPc' = [agentPc EXCEPT ![c] = "registered"]
                /\ Step("register", c)
                /\ UNCHANGED <<sock, rejected, wgConns>>
        /\ UNCHANGED <<sProto, sMaxConnNum, lnClosed, pcRun, cur, tempDelay, tempErrs,
                       wgLn, sConnsNil, sConn, pcClose, sPanic, newAgentCalls, runCalls,
                       onCloseCalls>>

\* newWSConn; newAgent(wsConn); agent.Run() is called in the handler's task
WSNewAgent ==
    \E c \in Transports :
        /\ agentPc[c] = "registered"
        /\ sConn' = sConn @@ (c :> Wrap(c))
        /\ newAgentCalls' = [newAgentCalls EXCEPT ![c] = @ + 1]
        /\ runCalls' = [runCalls EXCEPT ![c] = @ + 1]
        /\ agentPc' = [agentPc EXCEPT ![c] = "running"]
        /\ Step("newAgent", c)
        /\ UNCHANGED <<sProto, sMaxConnNum, lnClosed, pcRun, cur, tempDelay, tempErrs,
                       wgLn, wgConns, sConns, sConnsNil, sock, pcClose, sPanic, registered,
                       rejected, onCloseCalls>>

(***************************************************************************)
(* TCPServer.Close / WSServer.Close, callable once Start has returned.     *)
(***************************************************************************)
\* ln.Close()
CloseListener ==
    /\ pcClose = "idle"
    /\ lnClosed' = TRUE
    /\ pcClose' = IF sProto = "tcp" THEN "lnClosed" ELSE "lock"
    /\ Step("closeListener", 0)
    /\ UNCHANGED <<sProto, sMaxConnNum, pcRun, cur, tempDelay, tempErrs, wgLn, wgConns,
                   sConns, sConnsNil, sock, sConn, agentPc, sPanic, registered, rejected,
                   newAgentCalls, runCalls, onCloseCalls>>

\* wgLn.Wait() returns: the counter is zero
CloseWaitLn ==
    /\ pcClose = "lnClosed"
    /\ wgLn = 0
    /\ pcClose' = "lock"
    /\ Step("waitLn", 0)
    /\ UNCHANGED <<sProto, sMaxConnNum, lnClosed, pcRun, cur, tempDelay, tempErrs, wgLn,
                   wgConns, sConns, sConnsNil, sock, sConn, agentPc, sPanic, registered,
                   rejected, newAgentCalls, runCalls, onCloseCalls>>

\* under mutexConns: close every tracked transport; conns = nil
CloseConns ==
    /\ pcClose = "lock"
    /\ sock' = [c \in Transports |-> IF c \in sConns THEN "closed" ELSE sock[c]]
    /\ sConns' = {}
    /\ sConnsNil' = TRUE
    /\ pcClose' = "wait"
    /\ Step("closeConns", 0)
    /\ UNCHANGED <<sProto, sMaxConnNum, lnClosed, pcRun, cur, tempDelay, tempErrs, wgLn,
                   wgConns, sConn, agentPc, sPanic, registered, rejected, newAgentCalls,
                   runCalls, onCloseCalls>>

\* wgConns.Wait() / handler.wg.Wait() returns: the counter is zero; Close returns
CloseWaitConns ==
    /\ pcClose = "wait"
    /\ wgConns = 0
    /\ pcClose' = "returned"
    /\ Step("closeReturns", 0)
    /\ UNCHANGED <<sProto, sMaxConnNum, lnClosed, pcRun, cur, tempDelay, tempErrs, wgLn,
                   wgConns, sConns, sConnsNil, sock, sConn, agentPc, sPanic, registered,
                   rejected, newAgentCalls, runCalls, onCloseCalls>>

AcceptLoop == RunStart \/ Accept \/ AcceptTemporary \/ AcceptFatal \/ Register \/ Spawn

ServeHTTP == WSRefuse \/ WSUpgrade \/ WSAdd \/ WSRegister \/ WSNewAgent

AgentTask == AgentRun \/ AgentRunReturns \/ AgentConnClose \/ AgentDelete \/ AgentOnClose \/ AgentDone

ServerClose == CloseListener \/ CloseWaitLn \/ CloseConns \/ CloseWaitConns

SrvNext == AcceptLoop \/ ServeHTTP \/ AgentTask \/ ServerClose

(***************************************************************************)
(* The client: Start has run init and started ConnNum dialer tasks, each   *)
(* after a wg.Add(1).                                                      *)
(***************************************************************************)
Dialers == 1..MaxDialers

Dialed == 1..MaxDials

CliInit ==
    /\ cProto \in {"tcp", "ws"}
    /\ cConnNum \in 1..MaxDialers
    /\ cAuto \in BOOLEAN
    /\ cCloseFlag = FALSE
    /\ cConns = {}
    /\ cConnsNil = FALSE
    /\ cWg = cConnNum
    /\ pcDial = [d \in Dialers |-> IF d <= cConnNum THEN "dial" ELSE "unused"]
    /\ dConn = [d \in Dialers |-> 0]
    /\ cSock = [t \in Dialed |-> "pending"]
    /\ cConn = << >>
    /\ pcCClose = "idle"
    /\ cPanic = FALSE
    /\ cRegistered = {}
    /\ cNewAgentCalls = [t \in Dialed |-> 0]

\* a step of a task of the client; a panic ends the process
CStep ==
    /\ ~cPanic
    /\ UNCHANGED <<connVars, srvVars, rpcVars, sklVars, tmVars, goVars, modVars, parVars, cronVars, gateVars>>

\* dial: the connection is established; dial returns it whatever closeFlag says
DialOk(d) ==
    /\ pcDial[d] = "dial"
    /\ \E t \in Dialed :
          /\ cSock[t] = "pending"
          /\ \A t2 \in Dialed : t2 < t => cSock[t2] # "pending"
          /\ cSock' = [cSock EXCEPT ![t] = "open"]
          /\ dConn' = [dConn EXCEPT ![d] = t]
    /\ pcDial' = [pcDial EXCEPT ![d] = "lock"]
    /\ CStep
    /\ UNCHANGED <<cProto, cConnNum, cAuto, cCloseFlag, cConns, cConnsNil, cWg, cConn,
                   pcCClose, cPanic, cRegistered, cNewAgentCalls>>

\* dial: the connection attempt fails.  With closeFlag set dial returns nil and
\* connect returns (the deferred wg.Done() runs); otherwise the dialer sleeps
\* ConnectInterval and tries again.  closeFlag is read without the lock: a read
\* that misses a concurrent Close is the read of an interleaving in which the
\* attempt failed before Close ran.
DialFail(d) ==
    /\ pcDial[d] = "dial"
    /\ IF cCloseFlag
       THEN /\ pcDial' = [pcDial EXCEPT ![d] = "done"]
            /\ cWg' = cWg - 1
       ELSE UNCHANGED <<pcDial, cWg>>
    /\ CStep
    /\ UNCHANGED <<cProto, cConnNum, cAuto, cCloseFlag, cConns, cConnsNil, dConn, cSock,
                   cConn, pcCClose, cPanic, cRegistered, cNewAgentCalls>>

\* a connect that registers its connection without looking at closeFlag
ConnectLockUnguarded(d) ==
    /\ pcDial[d] = "lock"
    /\ IF cConnsNil
       THEN cPanic' = TRUE /\ UNCHANGED <<cConns, cRegistered>>
       ELSE /\ cConns' = cConns \cup {dConn[d]}
            /\ cRegistered' = cRegistered \cup {dConn[d]}
            /\ UNCHANGED cPanic
    /\ pcDial' = [pcDial EXCEPT ![d] = "agent"]
    /\ CStep
    /\ UNCHANGED <<cProto, cConnNum, cAuto, cCloseFlag, cConnsNil, cWg, dConn, cSock,
                   cConn, pcCClose, cNewAgentCalls>>

\* connect, under the client lock: with closeFlag set the connection is closed
\* and connect returns, otherwise the connection enters the connection set
ConnectLock(d) ==
    /\ pcDial[d] = "lock"
    /\ IF cCloseFlag
       THEN /\ cSock' = [cSock EXCEPT ![dConn[d]] = "closed"]
            /\ pcDial' = [pcDial EXCEPT ![d] = "done"]
            /\ cWg' = cWg - 1
            /\ UNCHANGED <<cConns, cRegistered, cPanic>>
       ELSE /\ IF cConnsNil
               THEN cPanic' = TRUE /\ UNCHANGED <<cConns, cRegistered>>
               ELSE /\ cConns' = cConns \cup {dConn[d]}
                    /\ cRegistered' = cRegistered \cup {dConn[d]}
                    /\ UNCHANGED cPanic
            /\ pcDial' = [pcDial EXCEPT ![d] = "agent"]
            /\ UNCHANGED <<cSock, cWg>>
    /\ CStep
    /\ UNCHANGED <<cProto, cConnNum, cAuto, cCloseFlag, cConnsNil, dConn, cConn, pcCClose,
                   cNewAgentCalls>>

\* the record of a newly wrapped transport
CWrap ==
    IF cProto = "tcp" THEN newTCPConn(MaxPending) ELSE newWSConn(MaxPending, MaxMsgLenBound)

\* newTCPConn; NewAgent(tcpConn); agent.Run() is called in the dialer's task
ConnectNewAgent(d) ==
    /\ pcDial[d] = "agent"
    /\ cConn' = cConn @@ (dConn[d] :> CWrap)
    /\ cNewAgentCalls' = [cNewAgentCalls EXCEPT ![dConn[d]] = @ + 1]
    /\ pcDial' = [pcDial EXCEPT ![d] = "running"]
    /\ CStep
    /\ UNCHANGED <<cProto, cConnNum, cAuto, cCloseFlag, cConns, cConnsNil, cWg, dConn,
                   cSock, pcCClose, cPanic, cRegistered>>

\* agent.Run() returns while its transport is open: the agent chose to stop
RunReturnsEarly(d) ==
    /\ pcDial[d] = "running"
    /\ cSock[dConn[d]] # "closed"
    /\ pcDial' = [pcDial EXCEPT ![d] = "cleanup"]
    /\ CStep
    /\ UNCHANGED <<cProto, cConnNum, cAuto, cCloseFlag, cConns, cConnsNil, cWg, dConn,
                   cSock, cConn, pcCClose, cPanic, cRegistered, cNewAgentCalls>>

\* agent.Run() returns because its transport is closed: its read fails
RunReturnsClosed(d) ==
    /\ pcDial[d] = "running"
    /\ cSock[dConn[d]] = "closed"
    /\ pcDial' = [pcDial EXCEPT ![d] = "cleanup"]
    /\ CStep
    /\ UNCHANGED <<cProto, cConnNum, cAuto, cCloseFlag, cConns, cConnsNil, cWg, dConn,
                   cSock, cConn, pcCClose, cPanic, cRegistered, cNewAgentCalls>>

\* the connection record of the transport t, its transport as it is now
CConnOf(t) == [cConn[t] EXCEPT !.connClosed = (cSock[t] = "closed")]

\* cleanup: tcpConn.Close() / wsConn.Close()
ConnectConnClose(d) ==
    /\ pcDial[d] = "cleanup"
    /\ LET t == dConn[d]
           c2 == IF cProto = "tcp" THEN Close(CConnOf(t)) ELSE wsClose(CConnOf(t))
       IN  /\ cConn' = [cConn EXCEPT ![t] = c2]
           /\ cSock' = [cSock EXCEPT ![t] = IF c2.connClosed THEN "closed" ELSE @]
    /\ pcDial' = [pcDial EXCEPT ![d] = "closed"]
    /\ CStep
    /\ UNCHANGED <<cProto, cConnNum, cAuto, cCloseFlag, cConns, cConnsNil, cWg, dConn,
                   pcCClose, cPanic, cRegistered, cNewAgentCalls>>

\* cleanup, under the client lock: delete(conns, conn)
ConnectDelete(d) ==
    /\ pcDial[d] = "closed"
    /\ cConns' = cConns \ {dConn[d]}
    /\ pcDial' = [pcDial EXCEPT ![d] = "deleted"]
    /\ CStep
    /\ UNCHANGED <<cProto, cConnNum, cAuto, cCloseFlag, cConnsNil, cWg, dConn, cSock,
                   cConn, pcCClose, cPanic, cRegistered, cNewAgentCalls>>

\* cleanup: agent.OnClose() is invoked
ConnectOnClose(d) ==
    /\ pcDial[d] = "deleted"
    /\ pcDial' = [pcDial EXCEPT ![d] = "onclose"]
    /\ CStep
    /\ UNCHANGED <<cProto, cConnNum, cAuto, cCloseFlag, cConns, cConnsNil, cWg, dConn,
                   cSock, cConn, pcCClose, cPanic, cRegistered, cNewAgentCalls>>

\* after OnClose a dialer that always sleeps and reconnects
AfterOnCloseAlwaysReconnect(d) ==
    /\ pcDial[d] = "onclose"
    /\ pcDial' = [pcDial EXCEPT ![d] = "dial"]
    /\ dConn' = [dConn EXCEPT ![d] = 0]
    /\ UNCHANGED cWg
    /\ CStep
    /\ UNCHANGED <<cProto, cConnNum, cAuto, cCloseFlag, cConns, cConnsNil, cSock, cConn,
                   pcCClose, cPanic, cRegistered, cNewAgentCalls>>

\* agent.OnClose() has returned: with AutoReconnect the dialer sleeps
\* ConnectInterval and reconnects, otherwise connect returns (wg.Done())
AfterOnClose(d) ==
    /\ pcDial[d] = "onclose"
    /\ IF cAuto
       THEN /\ pcDial' = [pcDial EXCEPT ![d] = "dial"]
            /\ dConn' = [dConn EXCEPT ![d] = 0]
            /\ UNCHANGED cWg
       ELSE /\ pcDial' = [pcDial EXCEPT ![d] = "done"]
            /\ cWg' = cWg - 1
            /\ UNCHANGED dConn
    /\ CStep
    /\ UNCHANGED <<cProto, cConnNum, cAuto, cCloseFlag, cConns, cConnsNil, cSock, cConn,
                   pcCClose, cPanic, cRegistered, cNewAgentCalls>>

\* Close, under the client lock: closeFlag = true; close every tracked
\* transport; conns = nil
ClientClose ==
    /\ pcCClose = "idle"
    /\ cCloseFlag' = TRUE
    /\ cSock' = [t \in Dialed |-> IF t \in cConns THEN "closed" ELSE cSock[t]]
    /\ cConns' = {}
    /\ cConnsNil' = TRUE
    /\ pcCClose' = "wait"
    /\ CStep
    /\ UNCHANGED <<cProto, cConnNum, cAuto, cWg, pcDial, dConn, cConn, cPanic, cRegistered,
                   cNewAgentCalls>>

\* wg.Wait() returns: the counter is zero; Close returns
ClientCloseReturns ==
    /\ pcCClose = "wait"
    /\ cWg = 0
    /\ pcCClose' = "returned"
    /\ CStep
    /\ UNCHANGED <<cProto, cConnNum, cAuto, cCloseFlag, cConns, cConnsNil, cWg, pcDial,
                   dConn, cSock, cConn, cPanic, cRegistered, cNewAgentCalls>>

\* the steps of dialer d that the scheduler and the agent's contract guarantee
DialerFair(d) ==
    \/ DialOk(d) \/ DialFail(d) \/ ConnectLock(d) \/ ConnectNewAgent(d)
    \/ RunReturnsClosed(d) \/ ConnectConnClose(d) \/ ConnectDelete(d)
    \/ ConnectOnClose(d) \/ AfterOnClose(d)

Dialer(d) == DialerFair(d) \/ RunReturnsEarly(d)

Connect == \E d \in Dialers : Dialer(d)

CliNext == Connect \/ ClientClose \/ ClientCloseReturns

(***************************************************************************)
(* chanrpc: the registered functions, CallInfo and RetInfo, and the pure   *)
(* parts of Client.f, assert, Server.exec and Server.ret.                  *)
(***************************************************************************)
\* s.functions after registration: the shape of each registered function,
\* 0: func([]interface{}), 1: ... interface{}, 2: ... []interface{}
functions == [f0 |-> 0, f1 |-> 1, fN |-> 2]

Registered == DOMAIN functions

\* the ids a caller may use: the registered ones and one that is not
FuncIds == Registered \cup {"nope"}

\* the calls a client makes, as function id and variant (0: Call0 or a
\* callback func(error), 1: Call1, 2: CallN): one per registered shape, one
\* with an id that is not registered, one whose variant is not the shape
Requests == {<<"f0", 0>>, <<"f1", 1>>, <<"fN", 2>>, <<"nope", 1>>, <<"f1", 2>>}

\* the ids Server.Go is used with
GoIds == {"f1", "nope"}

\* the argument vector of the call uid: every call has its own
RpcArgs(uid) == <<uid>>

\* what the function registered as id produces for args; a function of shape 0
\* produces nothing, one of shape 2 a slice
NilRet == [kind |-> "nil", fn |-> "nil", of |-> <<>>]

Apply(id, args) ==
    CASE functions[id] = 0 -> NilRet
      [] functions[id] = 1 -> [kind |-> "value", fn |-> id, of |-> args]
      [] functions[id] = 2 -> [kind |-> "slice", fn |-> id, of |-> args]

NoCall == [uid |-> 0, f |-> "nil", args |-> <<>>, chanRet |-> "nil", owner |-> 0, cb |-> "nil"]

CallInfo(uid, f, args, chanRet, owner, cb) ==
    [uid |-> uid, f |-> f, args |-> args, chanRet |-> chanRet, owner |-> owner, cb |-> cb]

RetInfo(uid, ret, err, cb) == [uid |-> uid, ret |-> ret, err |-> err, cb |-> cb]

\* the RetInfo of a call for which Server.ret is not called
NoRet == RetInfo(0, NilRet, "nil", "nil")

\* assert: a nil interface gives a nil slice, a slice is returned as it is
assert(i) == IF i.kind = "nil" THEN NilRet ELSE i

\* a Client.f that accepts a registered function of any shape
fAnyShape(attached, id, n) ==
    IF ~attached THEN [f |-> "nil", err |-> "server not attached"]
    ELSE IF id \notin Registered THEN [f |-> "nil", err |-> "function not registered"]
    ELSE [f |-> id, err |-> "nil"]

\* Client.f: the function registered as id, if its shape is n
f(attached, id, n) ==
    IF ~attached THEN [f |-> "nil", err |-> "server not attached"]
    ELSE IF id \notin Registered THEN [f |-> "nil", err |-> "function not registered"]
    ELSE IF functions[id] # n THEN [f |-> id, err |-> "return type mismatch"]
    ELSE [f |-> id, err |-> "nil"]

\* how the run of a registered function can end: it returns, it panics with a
\* value, or it panics with a nil value (recover() then returns nil)
Endings == {"returns", "panics", "panicsNil"}

\* Server.exec up to its call of Server.ret: the RetInfo it hands to ret for
\* the ending of the function, NoRet when it does not call ret
execRet(ci, ending) ==
    CASE ending = "returns" -> RetInfo(ci.uid, Apply(ci.f, ci.args), "nil", "nil")
      [] ending = "panics" -> RetInfo(ci.uid, NilRet, "panic", "nil")
      [] ending = "panicsNil" -> NoRet

(***************************************************************************)
(* chanrpc: the server's consuming loop, the synchronous clients, the      *)
(* asynchronous client and Server.Go.                                      *)
(***************************************************************************)
SyncClients == 1..MaxSyncClients

Uids == 1..MaxCalls

\* what a synchronous client holds of its last call: the id and the variant
\* it called with, and what the call returned ("pending": not yet)
NoResult == [uid |-> 0, id |-> "nil", n |-> 0, ret |-> NilRet, err |-> "nil"]

NoR == [op |-> "none", outcome |-> "none", uid |-> 0]

RpcInit ==
    /\ rCap \in 0..MaxChanCall
    /\ aCap \in 0..MaxAsynRet
    /\ ChanCall = <<>> /\ rClosed = FALSE
    /\ pcLoop = "select" /\ curCi = NoCall /\ curRi = NoRet
    /\ pcCall = [c \in SyncClients |-> "idle"]
    /\ callCi = [c \in SyncClients |-> NoCall]
    /\ chanSyncRet = [c \in SyncClients |-> <<>>]
    /\ lastRet = [c \in SyncClients |-> NoResult]
    /\ ChanAsynRet = <<>> /\ pendingAsynCall = 0
    /\ pcGo = "idle" /\ goCi = NoCall
    /\ nextUid = 0 /\ enq = <<>> /\ execd = <<>>
    /\ runs = [u \in Uids |-> <<>>]
    /\ replies = [u \in Uids |-> 0]
    /\ issued = [c \in SyncClients |-> <<>>]
    /\ retd = [c \in SyncClients |-> <<>>]
    /\ cbLog = <<>>
    /\ lastR = NoR

\* a step of a task of the chanrpc part
RStep == UNCHANGED <<connVars, srvVars, cliVars, sklVars, tmVars, goVars, modVars, parVars, cronVars, gateVars>>

\* a send on s.ChanCall can complete: the channel has room, or it is
\* unbuffered and the consuming loop is waiting in its select
CanSend ==
    /\ ~rClosed
    /\ \/ Len(ChanCall) < rCap
       \/ rCap = 0 /\ pcLoop = "select"

\* the send of ci on s.ChanCall completes; on an unbuffered channel the
\* consuming loop receives ci in the same step
Sent(ci) ==
    /\ IF rCap = 0
       THEN /\ pcLoop' = "exec" /\ curCi' = ci
            /\ UNCHANGED ChanCall
       ELSE /\ ChanCall' = Append(ChanCall, ci)
            /\ UNCHANGED <<pcLoop, curCi>>
    /\ enq' = Append(enq, ci.uid)

NotSent == UNCHANGED <<ChanCall, pcLoop, curCi, enq>>

\* what Call0 / Call1 / CallN (variant call.n) return for the RetInfo ri
SyncResult(call, ri) ==
    CASE call.n = 0 -> [call EXCEPT !.uid = ri.uid, !.ret = NilRet, !.err = ri.err]
      [] call.n = 1 -> [call EXCEPT !.uid = ri.uid, !.ret = ri.ret, !.err = ri.err]
      [] call.n = 2 -> [call EXCEPT !.uid = ri.uid, !.ret = assert(ri.ret), !.err = ri.err]

\* Call0 / Call1 / CallN up to the send: Client.f refuses the call, or the
\* CallInfo with the client's chanSyncRet is built
CallStart(c) ==
    /\ pcCall[c] = "idle" /\ nextUid < MaxCalls
    /\ \E rq \in Requests :
          LET id == rq[1]
              n == rq[2]
              uid == nextUid + 1
              args == RpcArgs(uid)
              r == f(TRUE, id, n)
          IN  /\ nextUid' = uid
              /\ issued' = [issued EXCEPT ![c] = Append(@, uid)]
              /\ IF r.err # "nil"
                 THEN /\ lastRet' = [lastRet EXCEPT ![c] =
                            [uid |-> uid, id |-> id, n |-> n, ret |-> NilRet, err |-> r.err]]
                      /\ retd' = [retd EXCEPT ![c] = Append(@, uid)]
                      /\ lastR' = [op |-> "Call", outcome |-> "refused", uid |-> uid]
                      /\ UNCHANGED <<pcCall, callCi>>
                 ELSE /\ callCi' = [callCi EXCEPT ![c] = CallInfo(uid, r.f, args, "sync", c, "nil")]
                      /\ pcCall' = [pcCall EXCEPT ![c] = "send"]
                      /\ lastRet' = [lastRet EXCEPT ![c] =
                            [uid |-> uid, id |-> id, n |-> n, ret |-> NilRet, err |-> "pending"]]
                      /\ lastR' = [op |-> "Call", outcome |-> "built", uid |-> uid]
                      /\ UNCHANGED retd
    /\ RStep
    /\ UNCHANGED <<rCap, ChanCall, rClosed, pcLoop, curCi, curRi, chanSyncRet, aCap,
                   ChanAsynRet, pendingAsynCall, pcGo, goCi, enq, execd, runs, replies,
                   cbLog>>

\* a Client.call that does not recover: the panic of a send on the closed
\* channel escapes to the caller
CallSendEscapes(c) ==
    /\ pcCall[c] = "send"
    /\ IF rClosed
       THEN /\ pcCall' = [pcCall EXCEPT ![c] = "panicked"]
            /\ lastR' = [op |-> "Call", outcome |-> "panicked", uid |-> callCi[c].uid]
            /\ UNCHANGED <<lastRet, retd>>
            /\ NotSent
       ELSE /\ CanSend
            /\ Sent(callCi[c])
            /\ pcCall' = [pcCall EXCEPT ![c] = "wait"]
            /\ lastR' = [op |-> "Call", outcome |-> "enqueued", uid |-> callCi[c].uid]
            /\ UNCHANGED <<lastRet, retd>>
    /\ RStep
    /\ UNCHANGED <<rCap, rClosed, curRi, callCi, chanSyncRet, aCap, ChanAsynRet,
                   pendingAsynCall, pcGo, goCi, nextUid, execd, runs, replies, issued,
                   cbLog>>

\* Client.call(ci, true): the blocking send; a send on the closed channel
\* panics, call recovers and the call returns the error
CallSend(c) ==
    /\ pcCall[c] = "send"
    /\ IF rClosed
       THEN /\ lastRet' = [lastRet EXCEPT ![c] = [@ EXCEPT !.err = "send on closed channel"]]
            /\ retd' = [retd EXCEPT ![c] = Append(@, callCi[c].uid)]
            /\ pcCall' = [pcCall EXCEPT ![c] = "idle"]
            /\ lastR' = [op |-> "Call", outcome |-> "recovered", uid |-> callCi[c].uid]
            /\ NotSent
       ELSE /\ CanSend
            /\ Sent(callCi[c])
            /\ pcCall' = [pcCall EXCEPT ![c] = "wait"]
            /\ lastR' = [op |-> "Call", outcome |-> "enqueued", uid |-> callCi[c].uid]
            /\ UNCHANGED <<lastRet, retd>>
    /\ RStep
    /\ UNCHANGED <<rCap, rClosed, curRi, callCi, chanSyncRet, aCap, ChanAsynRet,
                   pendingAsynCall, pcGo, goCi, nextUid, execd, runs, replies, issued,
                   cbLog>>

\* ri := <-c.chanSyncRet; the call returns
CallRecv(c) ==
    /\ pcCall[c] = "wait"
    /\ chanSyncRet[c] # <<>>
    /\ lastRet' = [lastRet EXCEPT ![c] = SyncResult(@, Head(chanSyncRet[c]))]
    /\ chanSyncRet' = [chanSyncRet EXCEPT ![c] = Tail(@)]
    /\ retd' = [retd EXCEPT ![c] = Append(@, callCi[c].uid)]
    /\ pcCall' = [pcCall EXCEPT ![c] = "idle"]
    /\ lastR' = [op |-> "Call", outcome |-> "returned", uid |-> callCi[c].uid]
    /\ RStep
    /\ UNCHANGED <<rCap, ChanCall, rClosed, pcLoop, curCi, curRi, callCi, aCap,
                   ChanAsynRet, pendingAsynCall, pcGo, goCi, nextUid, enq, execd, runs,
                   replies, issued, cbLog>>

\* the reply slot of ci has room for one more RetInfo
RetRoom(ci) ==
    CASE ci.chanRet = "sync" -> Len(chanSyncRet[ci.owner]) < 1
      [] ci.chanRet = "asyn" -> Len(ChanAsynRet) < aCap
      [] OTHER -> TRUE

\* Server.ret: without a reply slot nothing is sent; otherwise the RetInfo
\* gets the callback of the call and is sent on the reply slot (the send
\* waits for room)
ret(ci, ri) ==
    /\ RetRoom(ci)
    /\ CASE ci.chanRet = "sync" ->
              /\ chanSyncRet' = [chanSyncRet EXCEPT ![ci.owner] =
                                    Append(@, [ri EXCEPT !.cb = ci.cb])]
              /\ replies' = [replies EXCEPT ![ci.uid] = @ + 1]
              /\ UNCHANGED ChanAsynRet
         [] ci.chanRet = "asyn" ->
              /\ ChanAsynRet' = Append(ChanAsynRet, [ri EXCEPT !.cb = ci.cb])
              /\ replies' = [replies EXCEPT ![ci.uid] = @ + 1]
              /\ UNCHANGED chanSyncRet
         [] OTHER -> UNCHANGED <<chanSyncRet, ChanAsynRet, replies>>

\* a loop that takes the newest CallInfo of the request queue
LoopRecvNewest ==
    /\ pcLoop = "select" /\ ChanCall # <<>>
    /\ curCi' = ChanCall[Len(ChanCall)]
    /\ ChanCall' = SubSeq(ChanCall, 1, Len(ChanCall) - 1)
    /\ pcLoop' = "exec"
    /\ RStep
    /\ UNCHANGED <<rCap, rClosed, curRi, pcCall, callCi, chanSyncRet, lastRet, aCap,
                   ChanAsynRet, pendingAsynCall, pcGo, goCi, nextUid, enq, execd, runs,
                   replies, issued, retd, cbLog, lastR>>

\* case ci := <-s.server.ChanCall
LoopRecv ==
    /\ pcLoop = "select" /\ ChanCall # <<>>
    /\ curCi' = Head(ChanCall)
    /\ ChanCall' = Tail(ChanCall)
    /\ pcLoop' = "exec"
    /\ RStep
    /\ UNCHANGED <<rCap, rClosed, curRi, pcCall, callCi, chanSyncRet, lastRet, aCap,
                   ChanAsynRet, pendingAsynCall, pcGo, goCi, nextUid, enq, execd, runs,
                   replies, issued, retd, cbLog, lastR>>

\* an exec that answers before the function has run
LoopExecEarly ==
    /\ pcLoop = "exec"
    /\ curRi' = execRet(curCi, "returns")
    /\ pcLoop' = "ret"
    /\ RStep
    /\ UNCHANGED <<rCap, ChanCall, rClosed, curCi, pcCall, callCi, chanSyncRet, lastRet,
                   aCap, ChanAsynRet, pendingAsynCall, pcGo, goCi, nextUid, enq, execd,
                   runs, replies, issued, retd, cbLog, lastR>>

\* Server.Exec -> exec: the function of the call runs with the arguments of
\* the call and ends in one of the ways a function can end
LoopExec ==
    /\ pcLoop = "exec"
    /\ \E ending \in Endings :
          /\ runs' = [runs EXCEPT ![curCi.uid] = Append(@, [args |-> curCi.args, ending |-> ending])]
          /\ curRi' = execRet(curCi, ending)
    /\ execd' = Append(execd, curCi.uid)
    /\ pcLoop' = "ret"
    /\ RStep
    /\ UNCHANGED <<rCap, ChanCall, rClosed, curCi, pcCall, callCi, chanSyncRet, lastRet,
                   aCap, ChanAsynRet, pendingAsynCall, pcGo, goCi, nextUid, enq, replies,
                   issued, retd, cbLog, lastR>>

\* exec calls Server.ret (after a return, or in its recover); Exec logs the
\* error, if any, and the loop goes back to its select
LoopRet ==
    /\ pcLoop = "ret"
    /\ IF curRi = NoRet
       THEN UNCHANGED <<chanSyncRet, ChanAsynRet, replies>>
       ELSE ret(curCi, curRi)
    /\ pcLoop' = "select"
    /\ RStep
    /\ UNCHANGED <<rCap, ChanCall, rClosed, curCi, curRi, pcCall, callCi, lastRet, aCap,
                   pendingAsynCall, pcGo, goCi, nextUid, enq, execd, runs, issued, retd,
                   cbLog, lastR>>

\* case <-closeSig: Server.Close begins with close(s.ChanCall)
LoopClose ==
    /\ pcLoop = "select"
    /\ rClosed' = TRUE
    /\ pcLoop' = "drain"
    /\ RStep
    /\ UNCHANGED <<rCap, ChanCall, curCi, curRi, pcCall, callCi, chanSyncRet, lastRet,
                   aCap, ChanAsynRet, pendingAsynCall, pcGo, goCi, nextUid, enq, execd,
                   runs, replies, issued, retd, cbLog, lastR>>

\* a Server.Close that drops the residual calls
CloseDrainDrop ==
    /\ pcLoop = "drain" /\ ChanCall # <<>>
    /\ ChanCall' = Tail(ChanCall)
    /\ UNCHANGED <<chanSyncRet, ChanAsynRet, replies>>
    /\ RStep
    /\ UNCHANGED <<rCap, rClosed, pcLoop, curCi, curRi, pcCall, callCi, lastRet, aCap,
                   pendingAsynCall, pcGo, goCi, nextUid, enq, execd, runs, issued, retd,
                   cbLog, lastR>>

\* Server.Close: for ci := range s.ChanCall { s.ret(ci, "chanrpc server closed") }
CloseDrain ==
    /\ pcLoop = "drain" /\ ChanCall # <<>>
    /\ ret(Head(ChanCall), RetInfo(Head(ChanCall).uid, NilRet, "server closed", "nil"))
    /\ ChanCall' = Tail(ChanCall)
    /\ RStep
    /\ UNCHANGED <<rCap, rClosed, pcLoop, curCi, curRi, pcCall, callCi, lastRet, aCap,
                   pendingAsynCall, pcGo, goCi, nextUid, enq, execd, runs, issued, retd,
                   cbLog, lastR>>

\* Server.Close returns: the closed channel is drained
CloseReturn ==
    /\ pcLoop = "drain" /\ ChanCall = <<>>
    /\ pcLoop' = "returned"
    /\ RStep
    /\ UNCHANGED <<rCap, ChanCall, rClosed, curCi, curRi, pcCall, callCi, chanSyncRet,
                   lastRet, aCap, ChanAsynRet, pendingAsynCall, pcGo, goCi, nextUid, enq,
                   execd, runs, replies, issued, retd, cbLog, lastR>>

\* execCb: the callback of shape ri.cb is called with what its shape takes;
\* the history records who called it ("caller": inside AsynCall, "owner":
\* from Client.Cb)
execCb(ri, by) ==
    CASE ri.cb = 0 -> [uid |-> ri.uid, cb |-> 0, ret |-> NilRet, err |-> ri.err, by |-> by]
      [] ri.cb = 1 -> [uid |-> ri.uid, cb |-> 1, ret |-> ri.ret, err |-> ri.err, by |-> by]
      [] ri.cb = 2 -> [uid |-> ri.uid, cb |-> 2, ret |-> assert(ri.ret), err |-> ri.err, by |-> by]

\* an admission test that lets one call too many in
AdmittedOffByOne(pending, capacity) == pending <= capacity

\* AsynCall admits a call while pendingAsynCall < cap(ChanAsynRet)
Admitted(pending, capacity) == pending < capacity

\* an asynCall that blocks on a full request queue
asynCallBlocking(uid, id, args, n, attached) ==
    LET r == f(attached, id, n)
        ci == CallInfo(uid, r.f, args, "asyn", 0, n)
    IN  IF r.err # "nil"
        THEN /\ Len(ChanAsynRet) < aCap
             /\ ChanAsynRet' = Append(ChanAsynRet, RetInfo(uid, NilRet, r.err, n))
             /\ lastR' = [op |-> "AsynCall", outcome |-> "refused", uid |-> uid]
             /\ NotSent
        ELSE IF CanSend
        THEN /\ Sent(ci)
             /\ lastR' = [op |-> "AsynCall", outcome |-> "enqueued", uid |-> uid]
             /\ UNCHANGED ChanAsynRet
        ELSE /\ lastR' = [op |-> "AsynCall", outcome |-> "blocked", uid |-> uid]
             /\ UNCHANGED ChanAsynRet
             /\ NotSent

\* Client.asynCall: an error of Client.f, of the non-blocking send ("channel
\* full") or of a send on the closed channel (recovered by Client.call) goes
\* with the callback to the client's own ChanAsynRet; that send waits for room
asynCall(uid, id, args, n, attached) ==
    LET r == f(attached, id, n)
        ci == CallInfo(uid, r.f, args, "asyn", 0, n)
        err == IF r.err # "nil" THEN r.err
               ELSE IF rClosed THEN "send on closed channel"
               ELSE IF CanSend THEN "nil"
               ELSE "channel full"
    IN  IF err = "nil"
        THEN /\ Sent(ci)
             /\ lastR' = [op |-> "AsynCall", outcome |-> "enqueued", uid |-> uid]
             /\ UNCHANGED ChanAsynRet
        ELSE /\ NotSent
             /\ IF Len(ChanAsynRet) < aCap
                THEN /\ ChanAsynRet' = Append(ChanAsynRet, RetInfo(uid, NilRet, err, n))
                     /\ lastR' = [op |-> "AsynCall",
                                  outcome |-> IF r.err # "nil" THEN "refused"
                                              ELSE IF rClosed THEN "recovered" ELSE "full",
                                  uid |-> uid]
                ELSE /\ lastR' = [op |-> "AsynCall", outcome |-> "blocked", uid |-> uid]
                     /\ UNCHANGED ChanAsynRet

\* Client.AsynCall with a callback of shape n: at the limit the callback is
\* called at once with "too many calls"; otherwise asynCall, then
\* pendingAsynCall++
AsynCall ==
    /\ nextUid < MaxCalls
    /\ lastR.outcome # "blocked"
    /\ \E rq \in Requests :
          LET id == rq[1]
              n == rq[2]
              uid == nextUid + 1
              args == RpcArgs(uid)
              attached == TRUE
          IN  /\ nextUid' = uid
              /\ IF ~Admitted(pendingAsynCall, aCap)
                 THEN /\ cbLog' = Append(cbLog,
                            execCb(RetInfo(uid, NilRet, "too many calls", n), "caller"))
                      /\ lastR' = [op |-> "AsynCall", outcome |-> "tooMany", uid |-> uid]
                      /\ UNCHANGED <<pendingAsynCall, ChanAsynRet>>
                      /\ NotSent
                 ELSE /\ asynCall(uid, id, args, n, attached)
                      /\ pendingAsynCall' = IF lastR'.outcome = "blocked"
                                            THEN pendingAsynCall ELSE pendingAsynCall + 1
                      /\ UNCHANGED cbLog
    /\ RStep
    /\ UNCHANGED <<rCap, rClosed, curRi, pcCall, callCi, chanSyncRet, lastRet, aCap, pcGo,
                   goCi, execd, runs, replies, issued, retd>>

\* the owner of the client receives from c.ChanAsynRet and calls Client.Cb:
\* pendingAsynCall--, then execCb
AsynCb ==
    /\ ChanAsynRet # <<>>
    /\ lastR.outcome # "blocked"
    /\ pendingAsynCall' = pendingAsynCall - 1
    /\ cbLog' = Append(cbLog, execCb(Head(ChanAsynRet), "owner"))
    /\ ChanAsynRet' = Tail(ChanAsynRet)
    /\ lastR' = [op |-> "Cb", outcome |-> "called", uid |-> Head(ChanAsynRet).uid]
    /\ RStep
    /\ UNCHANGED <<rCap, ChanCall, rClosed, pcLoop, curCi, curRi, pcCall, callCi,
                   chanSyncRet, lastRet, aCap, pcGo, goCi, nextUid, enq, execd, runs,
                   replies, issued, retd>>

\* Server.Go up to the send: an id that is not registered ends it
GoStart ==
    /\ pcGo = "idle" /\ nextUid < MaxCalls
    /\ \E id \in GoIds :
          LET uid == nextUid + 1
              args == RpcArgs(uid)
          IN  /\ nextUid' = uid
              /\ IF id \notin Registered
                 THEN /\ lastR' = [op |-> "Go", outcome |-> "nothing", uid |-> uid]
                      /\ UNCHANGED <<pcGo, goCi>>
                 ELSE /\ goCi' = CallInfo(uid, id, args, "nil", 0, "nil")
                      /\ pcGo' = "send"
                      /\ lastR' = [op |-> "Go", outcome |-> "built", uid |-> uid]
    /\ RStep
    /\ UNCHANGED <<rCap, ChanCall, rClosed, pcLoop, curCi, curRi, pcCall, callCi,
                   chanSyncRet, lastRet, aCap, ChanAsynRet, pendingAsynCall, enq, execd,
                   runs, replies, issued, retd, cbLog>>

\* a Server.Go whose CallInfo carries a reply slot
GoSendWithSlot ==
    /\ pcGo = "send"
    /\ IF rClosed
       THEN /\ lastR' = [op |-> "Go", outcome |-> "recovered", uid |-> goCi.uid]
            /\ NotSent
       ELSE /\ CanSend
            /\ Sent([goCi EXCEPT !.chanRet = "asyn", !.cb = 0])
            /\ lastR' = [op |-> "Go", outcome |-> "enqueued", uid |-> goCi.uid]
    /\ pcGo' = "idle"
    /\ RStep
    /\ UNCHANGED <<rCap, rClosed, curRi, pcCall, callCi, chanSyncRet, lastRet, aCap,
                   ChanAsynRet, pendingAsynCall, goCi, nextUid, execd, runs, replies,
                   issued, retd, cbLog>>

\* Server.Go: the blocking send of a CallInfo without reply slot; the panic of
\* a send on the closed channel is recovered and dropped
GoSend ==
    /\ pcGo = "send"
    /\ IF rClosed
       THEN /\ lastR' = [op |-> "Go", outcome |-> "recovered", uid |-> goCi.uid]
            /\ NotSent
       ELSE /\ CanSend
            /\ Sent(goCi)
            /\ lastR' = [op |-> "Go", outcome |-> "enqueued", uid |-> goCi.uid]
    /\ pcGo' = "idle"
    /\ RStep
    /\ UNCHANGED <<rCap, rClosed, curRi, pcCall, callCi, chanSyncRet, lastRet, aCap,
                   ChanAsynRet, pendingAsynCall, goCi, nextUid, execd, runs, replies,
                   issued, retd, cbLog>>

SyncCall == \E c \in SyncClients : CallStart(c) \/ CallSend(c) \/ CallRecv(c)

ServerLoop == LoopRecv \/ LoopExec \/ LoopRet

ServerCloseRpc == LoopClose \/ CloseDrain \/ CloseReturn

AsynClient == AsynCall \/ AsynCb

ServerGo == GoStart \/ GoSend

\* the server with its synchronous clients and Server.Go
RpcNext == SyncCall \/ ServerLoop \/ ServerCloseRpc \/ ServerGo

\* the server with the asynchronous client and Server.Go
AsynNext == AsynClient \/ ServerLoop \/ ServerCloseRpc \/ ServerGo

(***************************************************************************)
(* The module skeleton.                                                    *)
(***************************************************************************)
Tasks == 1..MaxTasks

Events == 1..MaxEvents

\* a handler the loop has called: kind is "rpc", "command", "asynCb", "goCb"
\* or "timer"; id is the event, task or call it belongs to
Handler(kind, id) == [kind |-> kind, id |-> id]

\* Skeleton.Init, module.Register and the start of Run
SkInit ==
    /\ GoLen \in 0..MaxLen
    /\ TimerDispatcherLen \in 0..MaxLen
    /\ AsynCallLen \in 0..MaxLen
    /\ serverCap \in 0..MaxLen
    /\ closeSig = 0 /\ pcDestroy = "idle"
    /\ pcSkRun = "select" /\ running = {}
    /\ serverChanCall = <<>> /\ serverClosed = FALSE /\ commandClosed = FALSE
    /\ clientChanAsynRet = <<>> /\ clientPendingAsynCall = 0
    /\ gChanCb = <<>> /\ gPendingGo = 0
    /\ dispatcherChanTimer = <<>>
    /\ goTasks = {} /\ asynOut = {}
    /\ nextTask = 0 /\ events = 0
    /\ cbDone = {} /\ drained = {} /\ closeLog = <<>>

\* a step of a task of the skeleton part
KStep == UNCHANGED <<connVars, srvVars, cliVars, rpcVars, tmVars, goVars, modVars, parVars, cronVars, gateVars>>

\* a loop that starts the handler in a goroutine of its own
HandleInGoroutine(h) == running' = running \cup {h}

\* the loop calls the handler of what it received: s.client.Cb(ri),
\* s.server.Exec(ci), s.commandServer.Exec(ci), s.g.Cb(cb), t.Cb(); the call
\* is made by the loop itself, which goes on when the call has returned
Handle(h) ==
    /\ running = {}
    /\ running' = {h}

\* g.Idle()
gIdle == gPendingGo = 0

\* client.Idle()
clientIdle == clientPendingAsynCall = 0

\* the task of another module, or of the console, sends a call on
\* s.server.ChanCall: on the closed channel the send panics (recovered by
\* the caller), with room the call is buffered, and on a channel without
\* buffer it is taken by the loop waiting in its select
ServerCall ==
    /\ events < MaxEvents
    /\ events' = events + 1
    /\ IF serverClosed
       THEN UNCHANGED <<serverChanCall, running>>
       ELSE IF serverCap > 0
            THEN /\ Len(serverChanCall) < serverCap
                 /\ serverChanCall' = Append(serverChanCall, events')
                 /\ UNCHANGED running
            ELSE /\ pcSkRun = "select"
                 /\ Handle(Handler("rpc", events'))
                 /\ UNCHANGED serverChanCall
    /\ KStep
    /\ UNCHANGED <<GoLen, TimerDispatcherLen, AsynCallLen, serverCap, closeSig, pcDestroy,
                   pcSkRun, serverClosed, commandClosed, clientChanAsynRet,
                   clientPendingAsynCall, gChanCb, gPendingGo, dispatcherChanTimer,
                   goTasks, asynOut, nextTask, cbDone, drained, closeLog>>

\* the console sends a command on s.commandServer.ChanCall (no buffer)
CommandCall ==
    /\ events < MaxEvents
    /\ events' = events + 1
    /\ IF commandClosed
       THEN UNCHANGED running
       ELSE /\ pcSkRun = "select"
            /\ Handle(Handler("command", events'))
    /\ KStep
    /\ UNCHANGED <<GoLen, TimerDispatcherLen, AsynCallLen, serverCap, closeSig, pcDestroy,
                   pcSkRun, serverChanCall, serverClosed, commandClosed, clientChanAsynRet,
                   clientPendingAsynCall, gChanCb, gPendingGo, dispatcherChanTimer,
                   goTasks, asynOut, nextTask, cbDone, drained, closeLog>>

\* a timer made by Dispatcher.AfterFunc fires: its goroutine sends the timer
\* on disp.ChanTimer
TimerFire ==
    /\ events < MaxEvents
    /\ TimerDispatcherLen > 0
    /\ Len(dispatcherChanTimer) < TimerDispatcherLen
    /\ events' = events + 1
    /\ dispatcherChanTimer' = Append(dispatcherChanTimer, events')
    /\ KStep
    /\ UNCHANGED <<GoLen, TimerDispatcherLen, AsynCallLen, serverCap, closeSig, pcDestroy,
                   pcSkRun, running, serverChanCall, serverClosed, commandClosed,
                   clientChanAsynRet, clientPendingAsynCall, gChanCb, gPendingGo, goTasks,
                   asynOut, nextTask, cbDone, drained, closeLog>>

\* module.Destroy: m.closeSig <- true
DestroySignal ==
    /\ pcDestroy = "idle"
    /\ closeSig = 0
    /\ closeSig' = 1
    /\ pcDestroy' = "wait"
    /\ KStep
    /\ UNCHANGED <<GoLen, TimerDispatcherLen, AsynCallLen, serverCap, pcSkRun, running,
                   serverChanCall, serverClosed, commandClosed, clientChanAsynRet,
                   clientPendingAsynCall, gChanCb, gPendingGo, dispatcherChanTimer,
                   goTasks, asynOut, nextTask, events, cbDone, drained, closeLog>>

\* module.Destroy: m.wg.Wait() returns once Run has returned; destroy(m)
DestroyWaited ==
    /\ pcDestroy = "wait"
    /\ pcSkRun = "returned"
    /\ pcDestroy' = "done"
    /\ KStep
    /\ UNCHANGED <<GoLen, TimerDispatcherLen, AsynCallLen, serverCap, closeSig, pcSkRun,
                   running, serverChanCall, serverClosed, commandClosed, clientChanAsynRet,
                   clientPendingAsynCall, gChanCb, gPendingGo, dispatcherChanTimer,
                   goTasks, asynOut, nextTask, events, cbDone, drained, closeLog>>

\* case ri := <-s.client.ChanAsynRet: s.client.Cb(ri), which decrements
\* pendingAsynCall before it calls the callback
RecvAsynRet ==
    /\ pcSkRun = "select"
    /\ clientChanAsynRet # <<>>
    /\ Handle(Handler("asynCb", Head(clientChanAsynRet)))
    /\ clientChanAsynRet' = Tail(clientChanAsynRet)
    /\ clientPendingAsynCall' = clientPendingAsynCall - 1
    /\ KStep
    /\ UNCHANGED <<GoLen, TimerDispatcherLen, AsynCallLen, serverCap, closeSig, pcDestroy,
                   pcSkRun, serverChanCall, serverClosed, commandClosed, gChanCb,
                   gPendingGo, dispatcherChanTimer, goTasks, asynOut, nextTask, events,
                   cbDone, drained, closeLog>>

\* case ci := <-s.server.ChanCall: s.server.Exec(ci)
RecvServerCall ==
    /\ pcSkRun = "select"
    /\ serverChanCall # <<>>
    /\ Handle(Handler("rpc", Head(serverChanCall)))
    /\ serverChanCall' = Tail(serverChanCall)
    /\ KStep
    /\ UNCHANGED <<GoLen, TimerDispatcherLen, AsynCallLen, serverCap, closeSig, pcDestroy,
                   pcSkRun, serverClosed, commandClosed, clientChanAsynRet,
                   clientPendingAsynCall, gChanCb, gPendingGo, dispatcherChanTimer,
                   goTasks, asynOut, nextTask, events, cbDone, drained, closeLog>>

\* case cb := <-s.g.ChanCb: s.g.Cb(cb)
RecvChanCb ==
    /\ pcSkRun = "select"
    /\ gChanCb # <<>>
    /\ Handle(Handler("goCb", Head(gChanCb)))
    /\ gChanCb' = Tail(gChanCb)
    /\ KStep
    /\ UNCHANGED <<GoLen, TimerDispatcherLen, AsynCallLen, serverCap, closeSig, pcDestroy,
                   pcSkRun, serverChanCall, serverClosed, commandClosed, clientChanAsynRet,
                   clientPendingAsynCall, gPendingGo, dispatcherChanTimer, goTasks,
                   asynOut, nextTask, events, cbDone, drained, closeLog>>

\* a loop that goes on taking timers while it waits in Go.Close or Client.Close
RecvTimerWhileClosing ==
    /\ pcSkRun \in {"select", "gClose", "clientClose"}
    /\ dispatcherChanTimer # <<>>
    /\ Handle(Handler("timer", Head(dispatcherChanTimer)))
    /\ dispatcherChanTimer' = Tail(dispatcherChanTimer)
    /\ KStep
    /\ UNCHANGED <<GoLen, TimerDispatcherLen, AsynCallLen, serverCap, closeSig, pcDestroy,
                   pcSkRun, serverChanCall, serverClosed, commandClosed, clientChanAsynRet,
                   clientPendingAsynCall, gChanCb, gPendingGo, goTasks, asynOut, nextTask,
                   events, cbDone, drained, closeLog>>

\* case t := <-s.dispatcher.ChanTimer: t.Cb()
RecvTimer ==
    /\ pcSkRun = "select"
    /\ dispatcherChanTimer # <<>>
    /\ Handle(Handler("timer", Head(dispatcherChanTimer)))
    /\ dispatcherChanTimer' = Tail(dispatcherChanTimer)
    /\ KStep
    /\ UNCHANGED <<GoLen, TimerDispatcherLen, AsynCallLen, serverCap, closeSig, pcDestroy,
                   pcSkRun, serverChanCall, serverClosed, commandClosed, clientChanAsynRet,
                   clientPendingAsynCall, gChanCb, gPendingGo, goTasks, asynOut, nextTask,
                   events, cbDone, drained, closeLog>>

\* case <-closeSig
RecvCloseSig ==
    /\ pcSkRun = "select"
    /\ running = {}
    /\ closeSig > 0
    /\ closeSig' = closeSig - 1
    /\ pcSkRun' = "commandClose"
    /\ KStep
    /\ UNCHANGED <<GoLen, TimerDispatcherLen, AsynCallLen, serverCap, pcDestroy, running,
                   serverChanCall, serverClosed, commandClosed, clientChanAsynRet,
                   clientPendingAsynCall, gChanCb, gPendingGo, dispatcherChanTimer,
                   goTasks, asynOut, nextTask, events, cbDone, drained, closeLog>>

\* the handler returns; Go.Cb decrements pendingGo in its deferred function
Return ==
    /\ \E h \in running :
          /\ running' = running \ {h}
          /\ gPendingGo' = IF h.kind = "goCb" THEN gPendingGo - 1 ELSE gPendingGo
          /\ cbDone' = IF h.kind \in {"goCb", "asynCb"} THEN cbDone \cup {h.id} ELSE cbDone
    /\ KStep
    /\ UNCHANGED <<GoLen, TimerDispatcherLen, AsynCallLen, serverCap, closeSig, pcDestroy,
                   pcSkRun, serverChanCall, serverClosed, commandClosed, clientChanAsynRet,
                   clientPendingAsynCall, gChanCb, dispatcherChanTimer, goTasks, asynOut,
                   nextTask, events, drained, closeLog>>

\* a handler calls Skeleton.Go (which panics when GoLen is 0): pendingGo is
\* incremented and the task runs in a goroutine of its own
SkeletonGo ==
    /\ running # {}
    /\ GoLen > 0
    /\ nextTask < MaxTasks
    /\ nextTask' = nextTask + 1
    /\ gPendingGo' = gPendingGo + 1
    /\ goTasks' = goTasks \cup {nextTask'}
    /\ KStep
    /\ UNCHANGED <<GoLen, TimerDispatcherLen, AsynCallLen, serverCap, closeSig, pcDestroy,
                   pcSkRun, running, serverChanCall, serverClosed, commandClosed,
                   clientChanAsynRet, clientPendingAsynCall, gChanCb, dispatcherChanTimer,
                   asynOut, events, cbDone, drained, closeLog>>

\* the goroutine of a Go task: f() ends, by return or panic, and the deferred
\* function sends the callback on g.ChanCb
GoTaskDone ==
    /\ \E u \in goTasks :
          /\ Len(gChanCb) < GoLen
          /\ gChanCb' = Append(gChanCb, u)
          /\ goTasks' = goTasks \ {u}
    /\ KStep
    /\ UNCHANGED <<GoLen, TimerDispatcherLen, AsynCallLen, serverCap, closeSig, pcDestroy,
                   pcSkRun, running, serverChanCall, serverClosed, commandClosed,
                   clientChanAsynRet, clientPendingAsynCall, gPendingGo,
                   dispatcherChanTimer, asynOut, nextTask, events, cbDone, drained,
                   closeLog>>

\* a handler calls Skeleton.AsynCall (which panics when AsynCallLen is 0):
\* with too many calls pending the callback is called at once; otherwise the
\* call is enqueued at the other server, or the error of the attempt is put
\* on the own ChanAsynRet, and pendingAsynCall is incremented
SkeletonAsynCall ==
    /\ running # {}
    /\ AsynCallLen > 0
    /\ nextTask < MaxTasks
    /\ nextTask' = nextTask + 1
    /\ IF clientPendingAsynCall >= AsynCallLen
       THEN /\ cbDone' = cbDone \cup {nextTask'}
            /\ UNCHANGED <<asynOut, clientChanAsynRet, clientPendingAsynCall>>
       ELSE /\ clientPendingAsynCall' = clientPendingAsynCall + 1
            /\ UNCHANGED cbDone
            /\ \/ /\ asynOut' = asynOut \cup {nextTask'}
                  /\ UNCHANGED clientChanAsynRet
               \/ /\ Len(clientChanAsynRet) < AsynCallLen
                  /\ clientChanAsynRet' = Append(clientChanAsynRet, nextTask')
                  /\ UNCHANGED asynOut
    /\ KStep
    /\ UNCHANGED <<GoLen, TimerDispatcherLen, AsynCallLen, serverCap, closeSig, pcDestroy,
                   pcSkRun, running, serverChanCall, serverClosed, commandClosed, gChanCb,
                   gPendingGo, dispatcherChanTimer, goTasks, events, drained, closeLog>>

\* the other server answers an asynchronous call (Server.ret, from its exec
\* or its Close): the RetInfo is sent on s.client.ChanAsynRet
AsynReply ==
    /\ \E u \in asynOut :
          /\ Len(clientChanAsynRet) < AsynCallLen
          /\ clientChanAsynRet' = Append(clientChanAsynRet, u)
          /\ asynOut' = asynOut \ {u}
    /\ KStep
    /\ UNCHANGED <<GoLen, TimerDispatcherLen, AsynCallLen, serverCap, closeSig, pcDestroy,
                   pcSkRun, running, serverChanCall, serverClosed, commandClosed,
                   clientPendingAsynCall, gChanCb, gPendingGo, dispatcherChanTimer,
                   goTasks, nextTask, events, cbDone, drained, closeLog>>

\* s.commandServer.Close(): the channel has no buffer, nothing is left in it
CommandClose ==
    /\ pcSkRun = "commandClose"
    /\ commandClosed' = TRUE
    /\ closeLog' = Append(closeLog, "command")
    /\ pcSkRun' = "serverClose"
    /\ KStep
    /\ UNCHANGED <<GoLen, TimerDispatcherLen, AsynCallLen, serverCap, closeSig, pcDestroy,
                   running, serverChanCall, serverClosed, clientChanAsynRet,
                   clientPendingAsynCall, gChanCb, gPendingGo, dispatcherChanTimer,
                   goTasks, asynOut, nextTask, events, cbDone, drained>>

\* s.server.Close(): the channel is closed and what is left in it is
\* answered with the "server closed" error, not executed
SkServerClose ==
    /\ pcSkRun = "serverClose"
    /\ serverClosed' = TRUE
    /\ serverChanCall' = <<>>
    /\ closeLog' = Append(closeLog, "server")
    /\ pcSkRun' = "idleCheck"
    /\ KStep
    /\ UNCHANGED <<GoLen, TimerDispatcherLen, AsynCallLen, serverCap, closeSig, pcDestroy,
                   running, commandClosed, clientChanAsynRet, clientPendingAsynCall,
                   gChanCb, gPendingGo, dispatcherChanTimer, goTasks, asynOut, nextTask,
                   events, cbDone, drained>>

\* a loop that only waits for the Go scheduler
IdleCheckGoOnly ==
    /\ pcSkRun = "idleCheck"
    /\ running = {}
    /\ pcSkRun' = IF gIdle THEN "returned" ELSE "gClose"
    /\ KStep
    /\ UNCHANGED <<GoLen, TimerDispatcherLen, AsynCallLen, serverCap, closeSig, pcDestroy,
                   running, serverChanCall, serverClosed, commandClosed, clientChanAsynRet,
                   clientPendingAsynCall, gChanCb, gPendingGo, dispatcherChanTimer,
                   goTasks, asynOut, nextTask, events, cbDone, drained, closeLog>>

\* for !s.g.Idle() || !s.client.Idle(): the test; return when it fails
IdleCheck ==
    /\ pcSkRun = "idleCheck"
    /\ running = {}
    /\ pcSkRun' = IF gIdle /\ clientIdle THEN "returned" ELSE "gClose"
    /\ KStep
    /\ UNCHANGED <<GoLen, TimerDispatcherLen, AsynCallLen, serverCap, closeSig, pcDestroy,
                   running, serverChanCall, serverClosed, commandClosed, clientChanAsynRet,
                   clientPendingAsynCall, gChanCb, gPendingGo, dispatcherChanTimer,
                   goTasks, asynOut, nextTask, events, cbDone, drained, closeLog>>

\* Go.Close: for g.pendingGo > 0 { g.Cb(<-g.ChanCb) }
GClose ==
    /\ pcSkRun = "gClose"
    /\ IF gPendingGo > 0
       THEN /\ gChanCb # <<>>
            /\ Handle(Handler("goCb", Head(gChanCb)))
            /\ gChanCb' = Tail(gChanCb)
            /\ drained' = drained \cup {Head(gChanCb)}
            /\ UNCHANGED pcSkRun
       ELSE /\ running = {}
            /\ pcSkRun' = "clientClose"
            /\ UNCHANGED <<running, gChanCb, drained>>
    /\ KStep
    /\ UNCHANGED <<GoLen, TimerDispatcherLen, AsynCallLen, serverCap, closeSig, pcDestroy,
                   serverChanCall, serverClosed, commandClosed, clientChanAsynRet,
                   clientPendingAsynCall, gPendingGo, dispatcherChanTimer, goTasks,
                   asynOut, nextTask, events, cbDone, closeLog>>

\* Client.Close: for c.pendingAsynCall > 0 { c.Cb(<-c.ChanAsynRet) }
SkClientClose ==
    /\ pcSkRun = "clientClose"
    /\ IF clientPendingAsynCall > 0
       THEN /\ clientChanAsynRet # <<>>
            /\ Handle(Handler("asynCb", Head(clientChanAsynRet)))
            /\ clientChanAsynRet' = Tail(clientChanAsynRet)
            /\ clientPendingAsynCall' = clientPendingAsynCall - 1
            /\ drained' = drained \cup {Head(clientChanAsynRet)}
            /\ UNCHANGED pcSkRun
       ELSE /\ running = {}
            /\ pcSkRun' = "idleCheck"
            /\ UNCHANGED <<running, clientChanAsynRet, clientPendingAsynCall, drained>>
    /\ KStep
    /\ UNCHANGED <<GoLen, TimerDispatcherLen, AsynCallLen, serverCap, closeSig, pcDestroy,
                   serverChanCall, serverClosed, commandClosed, gChanCb, gPendingGo,
                   dispatcherChanTimer, goTasks, asynOut, nextTask, events, cbDone,
                   closeLog>>

\* the tasks outside the module that send it calls and timers
Callers == ServerCall \/ CommandCall \/ TimerFire

\* module.Destroy
ModuleDestroy == DestroySignal \/ DestroyWaited

\* Skeleton.Run: the select
RunSelect == RecvCloseSig \/ RecvAsynRet \/ RecvServerCall \/ RecvChanCb \/ RecvTimer

\* Skeleton.Run: the branch of the close signal
RunClose == CommandClose \/ SkServerClose \/ IdleCheck \/ GClose \/ SkClientClose

\* what a handler does: it submits work and returns
HandlerBody == SkeletonGo \/ SkeletonAsynCall \/ Return

\* the goroutines of the Go tasks and the servers the module calls
Workers == GoTaskDone \/ AsynReply

SklNext == Callers \/ ModuleDestroy \/ RunSelect \/ RunClose \/ HandlerBody \/ Workers

(***************************************************************************)
(* The timer dispatcher.                                                   *)
(***************************************************************************)
Timers == 1..MaxTimers

\* NewDispatcher(l)
TmInit ==
    /\ tmCap \in 0..MaxLen
    /\ ChanTimer = <<>>
    /\ tClock = [t \in Timers |-> "none"]
    /\ tCb = [t \in Timers |-> "nil"]
    /\ curT = 0 /\ pcT = "idle"
    /\ nTimers = 0
    /\ tCalls = [t \in Timers |-> 0]
    /\ tStopped = {}
    /\ cronT = 0
    /\ cronLog = <<>>

\* a step of a task of the timer part
TStep ==
    UNCHANGED <<connVars, srvVars, cliVars, rpcVars, sklVars, goVars, modVars, parVars, cronVars,
                gateVars, cronT, cronLog>>

\* the code of the owner of the dispatcher is running: between two events of
\* its loop, or inside a timer callback
OwnerRuns == pcT \in {"idle", "cb"}

\* Dispatcher.AfterFunc: a new Timer with the callback and an armed clock
DispAfterFunc ==
    /\ OwnerRuns
    /\ nTimers < MaxTimers
    /\ nTimers' = nTimers + 1
    /\ tCb' = [tCb EXCEPT ![nTimers'] = "set"]
    /\ tClock' = [tClock EXCEPT ![nTimers'] = "armed"]
    /\ TStep
    /\ UNCHANGED <<tmCap, ChanTimer, curT, pcT, tCalls, tStopped>>

\* the clock of a timer expires: the function given to time.AfterFunc starts
\* in a goroutine of its own
Expire ==
    /\ \E t \in Timers :
          /\ tClock[t] = "armed"
          /\ tClock' = [tClock EXCEPT ![t] = "expired"]
    /\ TStep
    /\ UNCHANGED <<tmCap, ChanTimer, tCb, curT, pcT, nTimers, tCalls, tStopped>>

\* a Timer.Stop that only stops the clock
StopClockOnly(t) ==
    /\ tClock' = [tClock EXCEPT ![t] = IF @ = "armed" THEN "stopped" ELSE @]
    /\ UNCHANGED tCb

\* Timer.Stop: t.t.Stop() keeps a clock that has not expired from firing;
\* t.cb = nil
Stop(t) ==
    /\ tClock' = [tClock EXCEPT ![t] = IF @ = "armed" THEN "stopped" ELSE @]
    /\ tCb' = [tCb EXCEPT ![t] = "nil"]

\* the owner calls Stop on a timer it has made
TimerStop ==
    /\ OwnerRuns
    /\ \E t \in 1..nTimers :
          /\ Stop(t)
          /\ tStopped' = tStopped \cup {t}
    /\ TStep
    /\ UNCHANGED <<tmCap, ChanTimer, curT, pcT, nTimers, tCalls>>

\* Timer.Cb up to the call of the callback: t.cb() is called when t.cb is
\* not nil; otherwise only the deferred function runs, which leaves t.cb nil
Cb(t) ==
    IF tCb[t] # "nil"
    THEN /\ curT' = t /\ pcT' = (IF tCb[t] = "cron" THEN "next" ELSE "cb")
         /\ tCalls' = [tCalls EXCEPT ![t] = @ + 1]
    ELSE UNCHANGED <<curT, pcT, tCalls>>

\* the goroutine of an expired timer sends it on disp.ChanTimer; a channel
\* without buffer hands it to the loop waiting in its select, which calls
\* t.Cb()
TimerSend ==
    /\ \E t \in Timers :
          /\ tClock[t] = "expired"
          /\ tClock' = [tClock EXCEPT ![t] = "sent"]
          /\ IF tmCap > 0
             THEN /\ Len(ChanTimer) < tmCap
                  /\ ChanTimer' = Append(ChanTimer, t)
                  /\ UNCHANGED <<curT, pcT, tCalls>>
             ELSE /\ pcT = "idle"
                  /\ Cb(t)
                  /\ UNCHANGED ChanTimer
    /\ TStep
    /\ UNCHANGED <<tmCap, tCb, nTimers, tStopped>>

\* case t := <-s.dispatcher.ChanTimer: t.Cb()
TimerRecv ==
    /\ pcT = "idle"
    /\ ChanTimer # <<>>
    /\ ChanTimer' = Tail(ChanTimer)
    /\ Cb(Head(ChanTimer))
    /\ TStep
    /\ UNCHANGED <<tmCap, tClock, tCb, nTimers, tStopped>>

\* t.cb() ends, by return or by a panic that the deferred function recovers
TimerCbEnds ==
    /\ pcT = "cb"
    /\ pcT' = "defer"
    /\ TStep
    /\ UNCHANGED <<tmCap, ChanTimer, tClock, tCb, curT, nTimers, tCalls, tStopped>>

\* the deferred function of Timer.Cb: t.cb = nil
TimerCbDefer ==
    /\ pcT = "defer"
    /\ tCb' = [tCb EXCEPT ![curT] = "nil"]
    /\ curT' = 0 /\ pcT' = "idle"
    /\ TStep
    /\ UNCHANGED <<tmCap, ChanTimer, tClock, nTimers, tCalls, tStopped>>

TmNext ==
    \/ DispAfterFunc \/ Expire \/ TimerStop \/ TimerSend \/ TimerRecv
    \/ TimerCbEnds \/ TimerCbDefer

(***************************************************************************)
(* The Cron of a dispatcher: CronFunc and Cron.Stop.                       *)
(***************************************************************************)
\* a step of the Cron
CFStep ==
    UNCHANGED <<connVars, srvVars, cliVars, rpcVars, sklVars, goVars, modVars, parVars, cronVars, gateVars>>

\* c.t = disp.AfterFunc(nextTime.Sub(now), cb): a new Timer with the closure
\* as its callback and an armed clock
CronAfterFunc ==
    /\ nTimers < MaxTimers
    /\ nTimers' = nTimers + 1
    /\ tCb' = [tCb EXCEPT ![nTimers'] = "cron"]
    /\ tClock' = [tClock EXCEPT ![nTimers'] = "armed"]
    /\ cronT' = nTimers'

\* Dispatcher.CronFunc: the Cron without a timer when cronExpr.Next(now) is
\* the zero instant, otherwise with the timer of the first firing
CronFunc ==
    /\ pcT = "idle"
    /\ cronLog = <<>>
    /\ \/ /\ cronLog' = <<<<"CronFunc", 0>>>>
          /\ UNCHANGED <<nTimers, tCb, tClock, cronT>>
       \/ /\ CronAfterFunc
          /\ cronLog' = <<<<"CronFunc", nTimers'>>>>
    /\ CFStep
    /\ UNCHANGED <<tmCap, ChanTimer, curT, pcT, tCalls, tStopped>>

\* the closure of a firing that never calls _cb when there is no next time
CronCbNextReturns ==
    /\ pcT = "next"
    /\ \/ /\ cronLog' = Append(cronLog, <<"zero", curT>>)
          /\ pcT' = "defer"
          /\ UNCHANGED <<nTimers, tCb, tClock, cronT>>
       \/ /\ CronAfterFunc
          /\ cronLog' = Append(cronLog, <<"sched", curT>>)
          /\ pcT' = "deferred"
    /\ CFStep
    /\ UNCHANGED <<tmCap, ChanTimer, curT, tCalls, tStopped>>

\* the closure cb of CronFunc, from its first statement to its return:
\* defer _cb(); nextTime := cronExpr.Next(now); return when it is the zero
\* instant, otherwise c.t = disp.AfterFunc(nextTime.Sub(now), cb)
CronCbNext ==
    /\ pcT = "next"
    /\ \/ /\ cronLog' = Append(cronLog, <<"zero", curT>>)
          /\ UNCHANGED <<nTimers, tCb, tClock, cronT>>
       \/ /\ CronAfterFunc
          /\ cronLog' = Append(cronLog, <<"sched", curT>>)
    /\ pcT' = "deferred"
    /\ CFStep
    /\ UNCHANGED <<tmCap, ChanTimer, curT, tCalls, tStopped>>

\* the deferred call of the closure: _cb()
CronUserCb ==
    /\ pcT = "deferred"
    /\ pcT' = "user"
    /\ cronLog' = Append(cronLog, <<"user", curT>>)
    /\ CFStep
    /\ UNCHANGED <<tmCap, ChanTimer, tClock, tCb, curT, nTimers, tCalls, tStopped, cronT>>

\* _cb ends, by return or by a panic that the deferred function of Timer.Cb
\* recovers, and with it the closure
CronUserCbEnds ==
    /\ pcT = "user"
    /\ pcT' = "defer"
    /\ CFStep
    /\ UNCHANGED <<tmCap, ChanTimer, tClock, tCb, curT, nTimers, tCalls, tStopped, cronT,
                   cronLog>>

\* a Cron.Stop that stops the clock of c.t and leaves its callback
CronStopClockOnly ==
    /\ pcT \in {"idle", "user"}
    /\ cronLog # <<>>
    /\ \A i \in 1..Len(cronLog) : cronLog[i] # <<"Stop", 0>>
    /\ cronLog' = Append(cronLog, <<"Stop", 0>>)
    /\ IF cronT # 0
       THEN StopClockOnly(cronT) /\ tStopped' = tStopped \cup {cronT}
       ELSE UNCHANGED <<tClock, tCb, tStopped>>
    /\ CFStep
    /\ UNCHANGED <<tmCap, ChanTimer, curT, pcT, nTimers, tCalls, cronT>>

\* Cron.Stop, called by the owner of the dispatcher from its loop or from
\* inside _cb: c.t.Stop() when c.t is not nil
CronStop ==
    /\ pcT \in {"idle", "user"}
    /\ cronLog # <<>>
    /\ \A i \in 1..Len(cronLog) : cronLog[i] # <<"Stop", 0>>
    /\ cronLog' = Append(cronLog, <<"Stop", 0>>)
    /\ IF cronT # 0
       THEN Stop(cronT) /\ tStopped' = tStopped \cup {cronT}
       ELSE UNCHANGED <<tClock, tCb, tStopped>>
    /\ CFStep
    /\ UNCHANGED <<tmCap, ChanTimer, curT, pcT, nTimers, tCalls, cronT>>

CronFuncNext ==
    \/ CronFunc \/ Expire \/ TimerSend \/ TimerRecv \/ CronCbNext \/ CronUserCb
    \/ CronUserCbEnds \/ CronStop \/ TimerCbDefer

(***************************************************************************)
(* The Go helper.                                                          *)
(***************************************************************************)
GoTasks == 1..MaxGoTasks

\* g.New(l) and g.NewLinearContext()
GoInit ==
    /\ gCap \in 0..MaxLen
    /\ ChanCb = <<>> /\ pendingGo = 0
    /\ linearGo = <<>> /\ mutexExecution = 0
    /\ goKind = [i \in GoTasks |-> "none"]
    /\ goPc = [i \in GoTasks |-> "none"]
    /\ goPair = [i \in GoTasks |-> 0]
    /\ curCb = 0 /\ pcG = "idle"
    /\ nGo = 0 /\ fLog = <<>> /\ fActive = {}
    /\ cbPut = [i \in GoTasks |-> 0]
    /\ cbRuns = [i \in GoTasks |-> <<>>]

\* a step of a task of the Go part
GStep == UNCHANGED <<connVars, srvVars, cliVars, rpcVars, sklVars, tmVars, modVars, parVars, cronVars, gateVars>>

\* Go.Go(f, cb): pendingGo++ and a goroutine for the pair
GoGo ==
    /\ nGo < MaxGoTasks
    /\ nGo' = nGo + 1
    /\ pendingGo' = pendingGo + 1
    /\ goKind' = [goKind EXCEPT ![nGo'] = "go"]
    /\ goPc' = [goPc EXCEPT ![nGo'] = "spawned"]
    /\ GStep
    /\ UNCHANGED <<gCap, ChanCb, linearGo, mutexExecution, goPair, curCb, pcG, fLog,
                   fActive, cbPut, cbRuns>>

\* LinearContext.Go(f, cb): pendingGo++, the pair is pushed to the back of
\* c.linearGo under mutexLinearGo (held only for a push or a pop), and a
\* goroutine is started
LinearContextGo ==
    /\ nGo < MaxGoTasks
    /\ nGo' = nGo + 1
    /\ pendingGo' = pendingGo + 1
    /\ linearGo' = Append(linearGo, nGo')
    /\ goKind' = [goKind EXCEPT ![nGo'] = "linear"]
    /\ goPc' = [goPc EXCEPT ![nGo'] = "spawned"]
    /\ GStep
    /\ UNCHANGED <<gCap, ChanCb, mutexExecution, goPair, curCb, pcG, fLog, fActive, cbPut,
                   cbRuns>>

\* f of pair e starts in goroutine i
StartF(i, e) ==
    /\ goPair' = [goPair EXCEPT ![i] = e]
    /\ goPc' = [goPc EXCEPT ![i] = "running"]
    /\ fLog' = Append(fLog, e)
    /\ fActive' = fActive \cup {e}

\* the goroutine of Go.Go calls f
GoRun(i) ==
    /\ goKind[i] = "go" /\ goPc[i] = "spawned"
    /\ StartF(i, i)
    /\ GStep
    /\ UNCHANGED <<gCap, ChanCb, pendingGo, linearGo, mutexExecution, goKind, curCb, pcG,
                   nGo, cbPut, cbRuns>>

\* the goroutine of LinearContext.Go: c.mutexExecution.Lock()
LinearLock(i) ==
    /\ goKind[i] = "linear" /\ goPc[i] = "spawned"
    /\ mutexExecution = 0
    /\ mutexExecution' = i
    /\ goPc' = [goPc EXCEPT ![i] = "locked"]
    /\ GStep
    /\ UNCHANGED <<gCap, ChanCb, pendingGo, linearGo, goKind, goPair, curCb, pcG, nGo,
                   fLog, fActive, cbPut, cbRuns>>

\* a goroutine of LinearContext.Go that runs the pair it was started for
LinearPopOwn(i) ==
    /\ goPc[i] = "locked"
    /\ linearGo' = SelectSeq(linearGo, LAMBDA e : e # i)
    /\ StartF(i, i)
    /\ GStep
    /\ UNCHANGED <<gCap, ChanCb, pendingGo, mutexExecution, goKind, curCb, pcG, nGo, cbPut,
                   cbRuns>>

\* the goroutine of LinearContext.Go removes the front of c.linearGo and
\* calls its f
LinearPop(i) ==
    /\ goPc[i] = "locked"
    /\ linearGo' = Tail(linearGo)
    /\ StartF(i, Head(linearGo))
    /\ GStep
    /\ UNCHANGED <<gCap, ChanCb, pendingGo, mutexExecution, goKind, curCb, pcG, nGo, cbPut,
                   cbRuns>>

\* f ends, by return or by panic
FEnds(i) ==
    /\ goPc[i] = "running"
    /\ \E how \in {"returned", "panicked"} : goPc' = [goPc EXCEPT ![i] = how]
    /\ fActive' = fActive \ {goPair[i]}
    /\ GStep
    /\ UNCHANGED <<gCap, ChanCb, pendingGo, linearGo, mutexExecution, goKind, goPair,
                   curCb, pcG, nGo, fLog, cbPut, cbRuns>>

\* the loop has received the callback of pair e: Go.Cb calls it
Cbk(e, by) ==
    /\ curCb' = e /\ pcG' = "cb"
    /\ cbRuns' = [cbRuns EXCEPT ![e] = Append(@, by)]

\* a goroutine of a LinearContext that unlocks c.mutexExecution before it
\* sends cb
SendCbUnlocked(i) ==
    /\ goPc[i] \in {"returned", "panicked"}
    /\ goPc' = [goPc EXCEPT ![i] = IF goKind[i] = "linear" THEN "sent" ELSE "done"]
    /\ mutexExecution' = IF goKind[i] = "linear" THEN 0 ELSE mutexExecution
    /\ cbPut' = [cbPut EXCEPT ![goPair[i]] = @ + 1]
    /\ IF gCap > 0
       THEN /\ Len(ChanCb) < gCap
            /\ ChanCb' = Append(ChanCb, goPair[i])
            /\ UNCHANGED <<curCb, pcG, cbRuns>>
       ELSE /\ pcG = "idle"
            /\ Cbk(goPair[i], "loop")
            /\ UNCHANGED ChanCb
    /\ GStep
    /\ UNCHANGED <<gCap, pendingGo, linearGo, goKind, goPair, nGo, fLog, fActive>>

\* a goroutine that calls the callback itself when f has ended
SendCbCallsIt(i) ==
    /\ goPc[i] \in {"returned", "panicked"}
    /\ goPc' = [goPc EXCEPT ![i] = "done"]
    /\ mutexExecution' = IF goKind[i] = "linear" THEN 0 ELSE mutexExecution
    /\ cbRuns' = [cbRuns EXCEPT ![goPair[i]] = Append(@, "task")]
    /\ UNCHANGED <<ChanCb, curCb, pcG, cbPut>>
    /\ GStep
    /\ UNCHANGED <<gCap, pendingGo, linearGo, goKind, goPair, nGo, fLog, fActive>>

\* the deferred function of the goroutine: g.ChanCb <- cb, then recover();
\* a channel without buffer hands cb to the loop waiting in its select; the
\* goroutine of a LinearContext still holds c.mutexExecution
SendCb(i) ==
    /\ goPc[i] \in {"returned", "panicked"}
    /\ goPc' = [goPc EXCEPT ![i] = IF goKind[i] = "linear" THEN "sent" ELSE "done"]
    /\ UNCHANGED mutexExecution
    /\ cbPut' = [cbPut EXCEPT ![goPair[i]] = @ + 1]
    /\ IF gCap > 0
       THEN /\ Len(ChanCb) < gCap
            /\ ChanCb' = Append(ChanCb, goPair[i])
            /\ UNCHANGED <<curCb, pcG, cbRuns>>
       ELSE /\ pcG = "idle"
            /\ Cbk(goPair[i], "loop")
            /\ UNCHANGED ChanCb
    /\ GStep
    /\ UNCHANGED <<gCap, pendingGo, linearGo, goKind, goPair, nGo, fLog, fActive>>

\* the first deferred call of the goroutine of a LinearContext, the last to
\* run: c.mutexExecution.Unlock()
LinearUnlock(i) ==
    /\ goKind[i] = "linear" /\ goPc[i] = "sent"
    /\ goPc' = [goPc EXCEPT ![i] = "done"]
    /\ mutexExecution' = 0
    /\ GStep
    /\ UNCHANGED <<gCap, ChanCb, pendingGo, linearGo, goKind, goPair, curCb, pcG, nGo,
                   fLog, fActive, cbPut, cbRuns>>

\* case cb := <-s.g.ChanCb: s.g.Cb(cb), and the same receive in Go.Close
GoRecvCb ==
    /\ pcG = "idle"
    /\ ChanCb # <<>>
    /\ ChanCb' = Tail(ChanCb)
    /\ Cbk(Head(ChanCb), "loop")
    /\ GStep
    /\ UNCHANGED <<gCap, pendingGo, linearGo, mutexExecution, goKind, goPc, goPair, nGo,
                   fLog, fActive, cbPut>>

\* Go.Cb: cb() has ended, by return or by a recovered panic; the deferred
\* function decrements pendingGo
GoCbEnds ==
    /\ pcG = "cb"
    /\ pendingGo' = pendingGo - 1
    /\ curCb' = 0 /\ pcG' = "idle"
    /\ GStep
    /\ UNCHANGED <<gCap, ChanCb, linearGo, mutexExecution, goKind, goPc, goPair, nGo, fLog,
                   fActive, cbPut, cbRuns>>

\* the code of the owner of the Go helper submits pairs
GoSubmit == GoGo \/ LinearContextGo

\* the goroutine of a pair
GoRoutine(i) ==
    GoRun(i) \/ LinearLock(i) \/ LinearPop(i) \/ FEnds(i) \/ SendCb(i) \/ LinearUnlock(i)

\* the loop that owns the Go helper
GoLoop == GoRecvCb \/ GoCbEnds

GoNext == GoSubmit \/ (\E i \in GoTasks : GoRoutine(i)) \/ GoLoop

(***************************************************************************)
(* The module registry.                                                    *)
(***************************************************************************)
Mods == 1..MaxMods

\* the state after the calls of module.Register: each module has its
\* closeSig of capacity 1 and its WaitGroup
ModInit ==
    /\ nMods \in 1..MaxMods
    /\ pcModInit = [at |-> "idle", i |-> 0]
    /\ pcModDestroy = [at |-> "idle", i |-> 0]
    /\ modRun = [m \in Mods |-> "none"]
    /\ modWg = [m \in Mods |-> 0]
    /\ modCloseSig = [m \in Mods |-> 0]
    /\ onInitLog = <<>>
    /\ runStarts = [m \in Mods |-> 0]
    /\ sigLog = <<>> /\ onDestroyLog = <<>> /\ onDestroyDone = {}
    /\ onDestroyPanics = {}

\* a step of a task of the module registry
MStep == UNCHANGED <<connVars, srvVars, cliVars, rpcVars, sklVars, tmVars, goVars, parVars, cronVars, gateVars>>

\* module.Init is called
InitBegin ==
    /\ pcModInit.at = "idle"
    /\ pcModInit' = [at |-> "onInit", i |-> 1]
    /\ MStep
    /\ UNCHANGED <<nMods, pcModDestroy, modRun, modWg, modCloseSig, onInitLog, runStarts,
                   sigLog, onDestroyLog, onDestroyDone, onDestroyPanics>>

\* the first loop of Init: mods[i].mi.OnInit()
InitOnInit ==
    /\ pcModInit.at = "onInit"
    /\ pcModInit' = [pcModInit EXCEPT !.at = "inOnInit"]
    /\ onInitLog' = Append(onInitLog, pcModInit.i)
    /\ MStep
    /\ UNCHANGED <<nMods, pcModDestroy, modRun, modWg, modCloseSig, runStarts, sigLog,
                   onDestroyLog, onDestroyDone, onDestroyPanics>>

\* an Init that starts the goroutines after the first OnInit
OnInitEndsEarly ==
    /\ pcModInit.at = "inOnInit"
    /\ \/ pcModInit' = [at |-> "start", i |-> 1]
       \/ pcModInit' = [pcModInit EXCEPT !.at = "panicked"]
    /\ MStep
    /\ UNCHANGED <<nMods, pcModDestroy, modRun, modWg, modCloseSig, onInitLog, runStarts,
                   sigLog, onDestroyLog, onDestroyDone, onDestroyPanics>>

\* OnInit ends: when it returns, the loop goes on with the next module, and
\* after the last with the second loop; a panic is not recovered by Init
OnInitEnds ==
    /\ pcModInit.at = "inOnInit"
    /\ \/ pcModInit' = IF pcModInit.i < nMods
                       THEN [at |-> "onInit", i |-> pcModInit.i + 1]
                       ELSE [at |-> "start", i |-> 1]
       \/ pcModInit' = [pcModInit EXCEPT !.at = "panicked"]
    /\ MStep
    /\ UNCHANGED <<nMods, pcModDestroy, modRun, modWg, modCloseSig, onInitLog, runStarts,
                   sigLog, onDestroyLog, onDestroyDone, onDestroyPanics>>

\* the second loop of Init: m.wg.Add(1); go run(m)
InitStart ==
    /\ pcModInit.at = "start"
    /\ LET m == pcModInit.i
       IN  /\ modWg' = [modWg EXCEPT ![m] = @ + 1]
           /\ modRun' = [modRun EXCEPT ![m] = "spawned"]
           /\ runStarts' = [runStarts EXCEPT ![m] = @ + 1]
           /\ pcModInit' = IF m < nMods THEN [at |-> "start", i |-> m + 1]
                           ELSE [at |-> "returned", i |-> 0]
    /\ MStep
    /\ UNCHANGED <<nMods, pcModDestroy, modCloseSig, onInitLog, sigLog, onDestroyLog,
                   onDestroyDone, onDestroyPanics>>

\* run(m): m.mi.Run(m.closeSig) is entered
RunBegins(m) ==
    /\ modRun[m] = "spawned"
    /\ modRun' = [modRun EXCEPT ![m] = "running"]
    /\ MStep
    /\ UNCHANGED <<nMods, pcModInit, pcModDestroy, modWg, modCloseSig, onInitLog,
                   runStarts, sigLog, onDestroyLog, onDestroyDone, onDestroyPanics>>

\* Run returns: after it has taken the close signal, or on its own account
RunReturns(m) ==
    /\ modRun[m] = "running"
    /\ modRun' = [modRun EXCEPT ![m] = "returned"]
    /\ \/ /\ modCloseSig[m] > 0
          /\ modCloseSig' = [modCloseSig EXCEPT ![m] = @ - 1]
       \/ UNCHANGED modCloseSig
    /\ MStep
    /\ UNCHANGED <<nMods, pcModInit, pcModDestroy, modWg, onInitLog, runStarts, sigLog,
                   onDestroyLog, onDestroyDone, onDestroyPanics>>

\* run(m): m.wg.Done()
RunDone(m) ==
    /\ modRun[m] = "returned"
    /\ modRun' = [modRun EXCEPT ![m] = "done"]
    /\ modWg' = [modWg EXCEPT ![m] = @ - 1]
    /\ MStep
    /\ UNCHANGED <<nMods, pcModInit, pcModDestroy, modCloseSig, onInitLog, runStarts,
                   sigLog, onDestroyLog, onDestroyDone, onDestroyPanics>>

\* module.Destroy is called, by the task that called Init, after Init
DestroyBegin ==
    /\ pcModInit.at = "returned"
    /\ pcModDestroy.at = "idle"
    /\ pcModDestroy' = [at |-> "send", i |-> nMods]
    /\ MStep
    /\ UNCHANGED <<nMods, pcModInit, modRun, modWg, modCloseSig, onInitLog, runStarts,
                   sigLog, onDestroyLog, onDestroyDone, onDestroyPanics>>

\* Destroy: m.closeSig <- true
DestroySend ==
    /\ pcModDestroy.at = "send"
    /\ LET m == pcModDestroy.i
       IN  /\ modCloseSig[m] < 1
           /\ modCloseSig' = [modCloseSig EXCEPT ![m] = @ + 1]
           /\ sigLog' = Append(sigLog, m)
    /\ pcModDestroy' = [pcModDestroy EXCEPT !.at = "wait"]
    /\ MStep
    /\ UNCHANGED <<nMods, pcModInit, modRun, modWg, onInitLog, runStarts, onDestroyLog,
                   onDestroyDone, onDestroyPanics>>

\* a Destroy that does not wait for run(m)
DestroyNoWait ==
    /\ pcModDestroy.at = "wait"
    /\ pcModDestroy' = [pcModDestroy EXCEPT !.at = "destroy"]
    /\ MStep
    /\ UNCHANGED <<nMods, pcModInit, modRun, modWg, modCloseSig, onInitLog, runStarts,
                   sigLog, onDestroyLog, onDestroyDone, onDestroyPanics>>

\* Destroy: m.wg.Wait()
DestroyWait ==
    /\ pcModDestroy.at = "wait"
    /\ modWg[pcModDestroy.i] = 0
    /\ pcModDestroy' = [pcModDestroy EXCEPT !.at = "destroy"]
    /\ MStep
    /\ UNCHANGED <<nMods, pcModInit, modRun, modWg, modCloseSig, onInitLog, runStarts,
                   sigLog, onDestroyLog, onDestroyDone, onDestroyPanics>>

\* destroy(m): m.mi.OnDestroy()
DestroyOnDestroy ==
    /\ pcModDestroy.at = "destroy"
    /\ pcModDestroy' = [pcModDestroy EXCEPT !.at = "inOnDestroy"]
    /\ onDestroyLog' = Append(onDestroyLog, pcModDestroy.i)
    /\ MStep
    /\ UNCHANGED <<nMods, pcModInit, modRun, modWg, modCloseSig, onInitLog, runStarts,
                   sigLog, onDestroyDone, onDestroyPanics>>

\* a destroy without recover: the panic of OnDestroy leaves Destroy
OnDestroyEndsEscapes ==
    /\ pcModDestroy.at = "inOnDestroy"
    /\ onDestroyDone' = onDestroyDone \cup {pcModDestroy.i}
    /\ \E how \in {"returns", "panics"} :
          /\ onDestroyPanics' = IF how = "panics" THEN onDestroyPanics \cup {pcModDestroy.i}
                                ELSE onDestroyPanics
          /\ pcModDestroy' = IF how = "panics" THEN [at |-> "panicked", i |-> pcModDestroy.i]
                             ELSE IF pcModDestroy.i > 1
                             THEN [at |-> "send", i |-> pcModDestroy.i - 1]
                             ELSE [at |-> "returned", i |-> 0]
    /\ MStep
    /\ UNCHANGED <<nMods, pcModInit, modRun, modWg, modCloseSig, onInitLog, runStarts,
                   sigLog, onDestroyLog>>

\* OnDestroy ends, by return or by a panic that the deferred function of
\* destroy recovers; destroy returns and Destroy goes on with the module
\* registered before
OnDestroyEnds ==
    /\ pcModDestroy.at = "inOnDestroy"
    /\ onDestroyDone' = onDestroyDone \cup {pcModDestroy.i}
    /\ \E how \in {"returns", "panics"} :
          onDestroyPanics' = IF how = "panics" THEN onDestroyPanics \cup {pcModDestroy.i}
                             ELSE onDestroyPanics
    /\ pcModDestroy' = IF pcModDestroy.i > 1
                       THEN [at |-> "send", i |-> pcModDestroy.i - 1]
                       ELSE [at |-> "returned", i |-> 0]
    /\ MStep
    /\ UNCHANGED <<nMods, pcModInit, modRun, modWg, modCloseSig, onInitLog, runStarts,
                   sigLog, onDestroyLog>>

\* module.Init
ModuleInit == InitBegin \/ InitOnInit \/ OnInitEnds \/ InitStart

\* the goroutine run(m)
ModuleRun(m) == RunBegins(m) \/ RunReturns(m) \/ RunDone(m)

\* module.Destroy
ModulesDestroy ==
    \/ DestroyBegin \/ DestroySend \/ DestroyWait \/ DestroyOnDestroy \/ OnDestroyEnds

ModNext == ModuleInit \/ (\E m \in Mods : ModuleRun(m)) \/ ModulesDestroy

(***************************************************************************)
(* Numbers beyond 2^31.  A length (a Go int of 64 bits) or a uint32 is     *)
(* the pair <<hi, lo>> that stands for hi * 65536 + lo, 0 <= lo < 65536.   *)
(***************************************************************************)
Num(n) == <<n \div 65536, n % 65536>>

NumAdd(a, b) ==
    <<a[1] + b[1] + ((a[2] + b[2]) \div 65536), (a[2] + b[2]) % 65536>>

NumLess(a, b) == a[1] < b[1] \/ (a[1] = b[1] /\ a[2] < b[2])

NumLeq(a, b) == ~NumLess(b, a)

\* a - b for b <= a
NumSub(a, b) ==
    IF a[2] >= b[2] THEN <<a[1] - b[1], a[2] - b[2]>>
    ELSE <<a[1] - b[1] - 1, a[2] + 65536 - b[2]>>

\* the conversion uint32(n): n modulo 2^32
Uint32(n) == <<n[1] % 65536, n[2]>>

MaxUint8 == Num(255)

MaxUint16 == Num(65535)

MaxUint32 == <<65535, 65535>>

(***************************************************************************)
(* Byte slices.  A []byte is the sequence of its runs <<b, n>>: n times    *)
(* the byte b, n a number as above, no run empty and no two neighbours of  *)
(* the same byte.                                                          *)
(***************************************************************************)
RECURSIVE Norm(_)
Norm(s) ==
    IF s = <<>> THEN <<>>
    ELSE IF s[1][2] = Num(0) THEN Norm(Tail(s))
    ELSE LET r == Norm(Tail(s))
         IN  IF r # <<>> /\ r[1][1] = s[1][1]
             THEN << <<s[1][1], NumAdd(s[1][2], r[1][2])>> >> \o Tail(r)
             ELSE <<s[1]>> \o r

\* the slice with the bytes d
Bytes(d) == Norm([i \in 1..Len(d) |-> <<d[i], Num(1)>>])

\* the slice of n bytes b
Fill(b, n) == Norm(<< <<b, n>> >>)

RECURSIVE SLen(_)
\* len(s)
SLen(s) == IF s = <<>> THEN Num(0) ELSE NumAdd(s[1][2], SLen(Tail(s)))

RECURSIVE Take(_, _)
\* s[:k] for k <= len(s)
Take(s, k) ==
    IF s = <<>> \/ k = Num(0) THEN <<>>
    ELSE IF NumLess(k, s[1][2]) THEN << <<s[1][1], k>> >>
    ELSE <<s[1]>> \o Take(Tail(s), NumSub(k, s[1][2]))

RECURSIVE Drop(_, _)
\* s[k:] for k <= len(s)
Drop(s, k) ==
    IF s = <<>> \/ k = Num(0) THEN s
    ELSE IF NumLess(k, s[1][2])
         THEN << <<s[1][1], NumSub(s[1][2], k)>> >> \o Tail(s)
    ELSE Drop(Tail(s), NumSub(k, s[1][2]))

RECURSIVE Explode(_)
\* the bytes of a short slice, one by one
Explode(s) ==
    IF s = <<>> THEN <<>>
    ELSE <<s[1][1]>> \o Explode(Norm(<< <<s[1][1], NumSub(s[1][2], Num(1))>> >> \o Tail(s)))

RECURSIVE Concat(_)
\* the slices of args one after the other
Concat(args) ==
    IF args = <<>> THEN <<>> ELSE Norm(Head(args) \o Concat(Tail(args)))

(***************************************************************************)
(* MsgParser.                                                              *)
(***************************************************************************)
NewMsgParser ==
    [lenMsgLen |-> 2, minMsgLen |-> Num(1), maxMsgLen |-> Num(4096),
     littleEndian |-> FALSE]

\* the largest length the length field of lenMsgLen bytes can hold
MaxOf(lenMsgLen) ==
    CASE lenMsgLen = 1 -> MaxUint8
      [] lenMsgLen = 2 -> MaxUint16
      [] lenMsgLen = 4 -> MaxUint32

\* MsgParser.SetMsgLen: the parser after the call
SetMsgLen(p, lenMsgLen, minMsgLen, maxMsgLen) ==
    LET p1 == IF lenMsgLen \in {1, 2, 4} THEN [p EXCEPT !.lenMsgLen = lenMsgLen] ELSE p
        p2 == IF minMsgLen # Num(0) THEN [p1 EXCEPT !.minMsgLen = minMsgLen] ELSE p1
        p3 == IF maxMsgLen # Num(0) THEN [p2 EXCEPT !.maxMsgLen = maxMsgLen] ELSE p2
        max == MaxOf(p3.lenMsgLen)
        p4 == IF NumLess(max, p3.minMsgLen) THEN [p3 EXCEPT !.minMsgLen = max] ELSE p3
    IN  IF NumLess(max, p4.maxMsgLen) THEN [p4 EXCEPT !.maxMsgLen = max] ELSE p4

\* MsgParser.SetByteOrder
SetByteOrder(p, littleEndian) == [p EXCEPT !.littleEndian = littleEndian]

\* the four bytes of a uint32, the most significant first
BigEndian32(n) == <<n[1] \div 256, n[1] % 256, n[2] \div 256, n[2] % 256>>

Reversed(h) == [i \in 1..Len(h) |-> h[Len(h) + 1 - i]]

\* Write, "write len": byte(msgLen), PutUint16(uint16(msgLen)) or
\* PutUint32(msgLen) in the byte order of the parser
PutLen(p, msgLen) ==
    LET b == BigEndian32(msgLen)
    IN  CASE p.lenMsgLen = 1 -> <<b[4]>>
          [] p.lenMsgLen = 2 -> IF p.littleEndian THEN <<b[4], b[3]>> ELSE <<b[3], b[4]>>
          [] p.lenMsgLen = 4 -> IF p.littleEndian THEN Reversed(b) ELSE b

\* Read, "parse len": the uint32 in the lenMsgLen bytes h
ParseLen(p, h) ==
    LET b == IF p.littleEndian THEN Reversed(h) ELSE h
    IN  CASE p.lenMsgLen = 1 -> Num(h[1])
          [] p.lenMsgLen = 2 -> Num(b[1] * 256 + b[2])
          [] p.lenMsgLen = 4 -> <<b[1] * 256 + b[2], b[3] * 256 + b[4]>>

RECURSIVE MsgLenOf(_)
\* Write, "get len": msgLen += uint32(len(args[i])), in uint32
MsgLenOf(args) ==
    IF args = <<>> THEN Num(0)
    ELSE Uint32(NumAdd(Uint32(SLen(Head(args))), MsgLenOf(Tail(args))))

RECURSIVE CopyPanics(_, _, _)
\* Write, "write data": msg[l:] panics when l exceeds len(msg) = size
CopyPanics(args, l, size) ==
    IF args = <<>> THEN FALSE
    ELSE \/ NumLess(size, l)
         \/ CopyPanics(Tail(args), NumAdd(l, SLen(Head(args))), size)

\* Write and Read, "check len"
LenError(p, msgLen) ==
    IF NumLess(p.maxMsgLen, msgLen) THEN "message too long"
    ELSE IF NumLess(msgLen, p.minMsgLen) THEN "message too short"
    ELSE "nil"

\* MsgParser.Write up to the call of conn.Write: the error returned, "panic"
\* for a run-time panic, and the buffers passed to conn.Write.  The slice
\* msg has uint32(lenMsgLen) + msgLen bytes, computed in uint32; writing the
\* length field into a shorter slice and slicing it beyond its end panic;
\* copy stops at the end of msg.
MsgWrite(p, args) ==
    LET msgLen == MsgLenOf(args)
        size == Uint32(NumAdd(Num(p.lenMsgLen), msgLen))
    IN  IF LenError(p, msgLen) # "nil"
        THEN [err |-> LenError(p, msgLen), handed |-> <<>>]
        ELSE IF NumLess(size, Num(p.lenMsgLen)) \/ CopyPanics(args, Num(p.lenMsgLen), size)
        THEN [err |-> "panic", handed |-> <<>>]
        ELSE [err |-> "nil",
              handed |-> <<Take(Norm(Bytes(PutLen(p, msgLen)) \o Concat(args)), size)>>]

\* MsgParser.Read on a connection that delivers the bytes of stream and
\* then ends: the error returned and the message
MsgRead(p, stream) ==
    IF NumLess(SLen(stream), Num(p.lenMsgLen))
    THEN [err |-> IF stream = <<>> THEN "EOF" ELSE "unexpected EOF", data |-> <<>>]
    ELSE LET msgLen == ParseLen(p, Explode(Take(stream, Num(p.lenMsgLen))))
             rest == Drop(stream, Num(p.lenMsgLen))
         IN  IF LenError(p, msgLen) # "nil"
             THEN [err |-> LenError(p, msgLen), data |-> <<>>]
             ELSE IF NumLess(SLen(rest), msgLen)
             THEN [err |-> IF rest = <<>> THEN "EOF" ELSE "unexpected EOF", data |-> <<>>]
             ELSE [err |-> "nil", data |-> Take(rest, msgLen)]

\* the arguments SetMsgLen is called with
LenWidths == {1, 2, 3, 4}

MinArgs == {Num(0), Num(3), Num(5000)}

MaxArgs == {Num(0), Num(1), MaxUint32}

\* the payload of n bytes 'A', 'B', 'C', ...
Payload(from, to) == Bytes([i \in 1..(to - from + 1) |-> 64 + from + i - 1])

\* the argument vectors Write is called with: none, one buffer, two buffers,
\* large buffers, and one large buffer passed three and four times
ParserArgs ==
    {<<>>}
    \cup {<<Payload(1, n)>> : n \in 0..MaxPayload}
    \cup {<<Payload(1, k), Payload(k + 1, MaxPayload)>> : k \in 0..MaxPayload}
    \cup {<<Fill(65, n)>> : n \in {Num(255), Num(256), MaxUint32, <<65536, 3>>}}
    \cup {<<Fill(65, <<21845, 21845>>), Fill(65, <<21845, 21845>>), Fill(65, <<21845, 21845>>)>>}
    \cup {<<Fill(65, <<16384, 1>>), Fill(65, <<16384, 1>>), Fill(65, <<16384, 1>>),
            Fill(65, <<16384, 1>>)>>}

NoWrite == [op |-> "none", args |-> <<>>, err |-> "nil", handed |-> <<>>]

NoRead == [op |-> "none", err |-> "nil", data |-> <<>>]

\* the state after NewMsgParser and newTCPConn
ParInit ==
    /\ parser = NewMsgParser
    /\ nSetCalls = 0
    /\ nWrites = 0
    /\ pConn = newTCPConn(1)
    /\ pWrote = NoWrite
    /\ pReadRes = NoRead

PStep == UNCHANGED <<connVars, srvVars, cliVars, rpcVars, sklVars, tmVars, goVars, modVars, cronVars, gateVars>>

\* p.SetMsgLen(lenMsgLen, minMsgLen, maxMsgLen), before the parser is used
CallSetMsgLen ==
    /\ nSetCalls < MaxSetCalls
    /\ pWrote.op = "none" /\ pReadRes.op = "none"
    /\ \E w \in LenWidths, min \in MinArgs, max \in MaxArgs :
           parser' = SetMsgLen(parser, w, min, max)
    /\ nSetCalls' = nSetCalls + 1
    /\ PStep
    /\ UNCHANGED <<nWrites, pConn, pWrote, pReadRes>>

\* p.SetByteOrder(littleEndian), before the parser is used
CallSetByteOrder ==
    /\ pWrote.op = "none" /\ pReadRes.op = "none"
    /\ \E le \in BOOLEAN : le # parser.littleEndian /\ parser' = SetByteOrder(parser, le)
    /\ PStep
    /\ UNCHANGED <<nSetCalls, nWrites, pConn, pWrote, pReadRes>>

\* p.Write(conn, args...)
ParserWrite ==
    /\ nWrites < MaxParserWrites
    /\ pWrote.err # "panic"
    /\ \E args \in ParserArgs :
           LET r == MsgWrite(parser, args)
           IN  /\ pWrote' = [op |-> "Write", args |-> args, err |-> r.err, handed |-> r.handed]
               /\ pConn' = IF r.err = "nil" THEN Write(pConn, Buf(r.handed[1])) ELSE pConn
    /\ nWrites' = nWrites + 1
    /\ PStep
    /\ UNCHANGED <<parser, nSetCalls, pReadRes>>

\* conn.Close()
ParserConnClose ==
    /\ ~pConn.closeFlag
    /\ pConn' = Close(pConn)
    /\ PStep
    /\ UNCHANGED <<parser, nSetCalls, nWrites, pWrote, pReadRes>>

\* the writer goroutine puts the next buffer of the queue on the wire and
\* the peer, whose parser is set up in the same way, calls Read
PeerRead ==
    /\ pConn.writeChan # <<>>
    /\ ~Head(pConn.writeChan).isNil
    /\ pReadRes' = [op |-> "Read"] @@ MsgRead(parser, Head(pConn.writeChan).data)
    /\ pConn' = [pConn EXCEPT !.writeChan = Tail(@)]
    /\ PStep
    /\ UNCHANGED <<parser, nSetCalls, nWrites, pWrote>>

ParNext ==
    CallSetMsgLen \/ CallSetByteOrder \/ ParserWrite \/ ParserConnClose \/ PeerRead

(***************************************************************************)
(* Instants.  A time.Time is the record of its calendar fields in its      *)
(* location and of the offset of that location from UTC in minutes (a      *)
(* location without daylight saving).                                      *)
(***************************************************************************)
Date(y, mo, d, h, mi, sc, ns) ==
    [year |-> y, month |-> mo, day |-> d, hour |-> h, min |-> mi, sec |-> sc, nsec |-> ns,
     zone |-> 0]

\* the instant with the calendar fields of t in the location z minutes east of UTC
In(t, z) == [t EXCEPT !.zone = z]

\* time.Time{}
ZeroTime == Date(1, 1, 1, 0, 0, 0, 0)

IsLeap(y) == y % 4 = 0 /\ (y % 100 # 0 \/ y % 400 = 0)

DaysIn(y, mo) ==
    IF mo = 2 THEN (IF IsLeap(y) THEN 29 ELSE 28)
    ELSE IF mo \in {4, 6, 9, 11} THEN 30 ELSE 31

RECURSIVE DaysBeforeMonth(_, _)
\* the days of the year y before its month mo
DaysBeforeMonth(y, mo) ==
    IF mo = 1 THEN 0 ELSE DaysBeforeMonth(y, mo - 1) + DaysIn(y, mo - 1)

RECURSIVE DaysBeforeYear(_)
\* the days from 1 January 2022 to 1 January of y
DaysBeforeYear(y) ==
    IF y <= 2022 THEN 0
    ELSE DaysBeforeYear(y - 1) + (IF IsLeap(y - 1) THEN 366 ELSE 365)

\* t.Weekday(), 0 for Sunday; 1 January 2022 was a Saturday
Weekday(t) ==
    (6 + DaysBeforeYear(t.year) + DaysBeforeMonth(t.year, t.month) + t.day - 1) % 7

\* t is later than u
Later(t, u) ==
    LET a == <<t.year, t.month, t.day, t.hour, t.min, t.sec, t.nsec>>
        b == <<u.year, u.month, u.day, u.hour, u.min, u.sec, u.nsec>>
    IN  \E i \in 1..7 : a[i] > b[i] /\ \A j \in 1..(i - 1) : a[j] = b[j]

\* t.AddDate(0, 1, 0): the month after, a day beyond its end carried over
AddMonth(t) ==
    LET y == IF t.month = 12 THEN t.year + 1 ELSE t.year
        mo == IF t.month = 12 THEN 1 ELSE t.month + 1
    IN  IF t.day <= DaysIn(y, mo) THEN [t EXCEPT !.year = y, !.month = mo]
        ELSE [t EXCEPT !.year = y, !.month = mo + 1, !.day = t.day - DaysIn(y, mo)]

\* t.AddDate(0, 0, 1)
AddDay(t) ==
    IF t.day < DaysIn(t.year, t.month) THEN [t EXCEPT !.day = t.day + 1]
    ELSE IF t.month < 12 THEN [t EXCEPT !.month = t.month + 1, !.day = 1]
    ELSE [t EXCEPT !.year = t.year + 1, !.month = 1, !.day = 1]

\* the day before t
SubDay(t) ==
    IF t.day > 1 THEN [t EXCEPT !.day = t.day - 1]
    ELSE IF t.month > 1
         THEN [t EXCEPT !.month = t.month - 1, !.day = DaysIn(t.year, t.month - 1)]
    ELSE [t EXCEPT !.year = t.year - 1, !.month = 12, !.day = 31]

\* t.Truncate(time.Hour): the multiple of an hour since the zero time, which
\* is a whole hour of UTC; in a location whose offset is not a whole number
\* of hours the minutes of the result are not 0
TruncateHour(t) ==
    LET k == (t.min + 60 - (t.zone % 60)) % 60
        u == [t EXCEPT !.sec = 0, !.nsec = 0]
    IN  IF t.min >= k THEN [u EXCEPT !.min = t.min - k]
        ELSE IF t.hour > 0 THEN [u EXCEPT !.min = t.min + 60 - k, !.hour = t.hour - 1]
        ELSE SubDay([u EXCEPT !.min = t.min + 60 - k, !.hour = 23])

\* t.Add(time.Hour)
AddHour(t) ==
    IF t.hour < 23 THEN [t EXCEPT !.hour = t.hour + 1] ELSE AddDay([t EXCEPT !.hour = 0])

\* t.Add(time.Minute)
AddMinute(t) ==
    IF t.min < 59 THEN [t EXCEPT !.min = t.min + 1] ELSE AddHour([t EXCEPT !.min = 0])

\* t.Add(time.Second)
AddSecond(t) ==
    IF t.sec < 59 THEN [t EXCEPT !.sec = t.sec + 1] ELSE AddMinute([t EXCEPT !.sec = 0])

(***************************************************************************)
(* CronExpr.                                                               *)
(***************************************************************************)
\* CronExpr.matchDay
matchDay(e, t) ==
    IF e.dom = 1..31 THEN Weekday(t) \in e.dow
    ELSE IF e.dow = 0..6 THEN t.day \in e.dom
    ELSE Weekday(t) \in e.dow \/ t.day \in e.dom

\* the expressions Next is called on
CronExprs ==
    [sec : {{0}, {59}, 0..59}, min : {{0}, 0..59}, hour : {{0}, {23}, 0..23},
     dom : {1..31, {29}, {31}}, month : {1..12, {2}}, dow : {0..6, {0}}]

InputYears == 2022..(2022 + MaxInputYears - 1)

\* the instants Next is called with
Instants ==
    UNION {{Date(y, 12, 31, 23, 59, 59, 0), Date(y, 12, 31, 23, 59, 59, 500000000),
            Date(y, 2, 28, 23, 59, 59, 0), Date(y, 1, 31, 12, 30, 30, 500000000),
            Date(y, 3, 1, 0, 0, 0, 0)} : y \in InputYears}

(***************************************************************************)
(* Written fields.  A field is a comma-separated list of items; an item is *)
(* "*" or a number, then a hyphen and a number when range is set, then a   *)
(* slash and a number when step is set.                                    *)
(***************************************************************************)
All == [star |-> TRUE, lo |-> 0, range |-> FALSE, hi |-> 0, step |-> FALSE, incr |-> 0]
N(n) == [All EXCEPT !.star = FALSE, !.lo = n]
R(n, m) == [N(n) EXCEPT !.range = TRUE, !.hi = m]
Every(item, k) == [item EXCEPT !.step = TRUE, !.incr = k]
Star == <<All>>

\* parseCronField, one item: the error, or the bits the item sets
parseItem(item, min, max) ==
    LET start == IF item.star THEN min ELSE item.lo
        end == IF item.star THEN max
               ELSE IF ~item.range THEN (IF item.step THEN max ELSE start)
               ELSE item.hi
        incr == IF ~item.step THEN 1 ELSE item.incr
    IN  IF item.star /\ item.range THEN [err |-> "invalid range", bits |-> {}]
        ELSE IF start > end THEN [err |-> "invalid range", bits |-> {}]
        ELSE IF start < min \/ end > max THEN [err |-> "out of range", bits |-> {}]
        ELSE IF incr <= 0 THEN [err |-> "invalid increment", bits |-> {}]
        ELSE [err |-> "nil",
              bits |-> IF incr = 1 THEN start..end
                       ELSE {i \in start..end : (i - start) % incr = 0}]

\* parseCronField: the union of the bits of the items, up to the first item
\* in error
RECURSIVE parseCronField(_, _, _)
parseCronField(field, min, max) ==
    IF field = <<>> THEN [err |-> "nil", cronField |-> {}]
    ELSE LET r == parseItem(Head(field), min, max)
             rest == parseCronField(Tail(field), min, max)
         IN  IF r.err # "nil" THEN [err |-> r.err, cronField |-> {}]
             ELSE [err |-> rest.err, cronField |-> r.bits \cup rest.cronField]

\* NewCronExpr: the six fields parsed with their ranges; the first error ends it
NewCronExpr(fields) ==
    LET sec == parseCronField(fields[1], 0, 59)
        min == parseCronField(fields[2], 0, 59)
        hour == parseCronField(fields[3], 0, 23)
        dom == parseCronField(fields[4], 1, 31)
        month == parseCronField(fields[5], 1, 12)
        dow == parseCronField(fields[6], 0, 6)
        all == <<sec, min, hour, dom, month, dow>>
    IN  [err |-> IF \E i \in 1..6 : all[i].err # "nil"
                 THEN all[CHOOSE i \in 1..6 : all[i].err # "nil"
                                               /\ \A j \in 1..(i - 1) : all[j].err = "nil"].err
                 ELSE "nil",
         cronExpr |-> [sec |-> sec.cronField, min |-> min.cronField, hour |-> hour.cronField,
                       dom |-> dom.cronField, month |-> month.cronField,
                       dow |-> dow.cronField]]

\* the ways the day-of-month field is written: *, 1-31, 15, 1-15, 1-15,16-31,
\* */2, 30/1, 0-31, 31-1, */0
DomFields ==
    {Star, <<R(1, 31)>>, <<N(15)>>, <<R(1, 15)>>, <<R(1, 15), R(16, 31)>>, <<Every(All, 2)>>,
     <<Every(N(30), 1)>>, <<R(0, 31)>>, <<R(31, 1)>>, <<Every(All, 0)>>}

\* the ways the day-of-week field is written: *, 0-6, 1, 0-3,4-6, 1/2, 7, *-3
DowFields ==
    {Star, <<R(0, 6)>>, <<N(1)>>, <<R(0, 3), R(4, 6)>>, <<Every(N(1), 2)>>, <<N(7)>>,
     <<[All EXCEPT !.range = TRUE, !.hi = 3]>>}

\* the days matchDay is asked about: a Saturday, a Sunday, a Monday, a Tuesday
Days ==
    {Date(2022, 1, 15, 0, 0, 0, 0), Date(2022, 1, 30, 0, 0, 0, 0),
     Date(2022, 1, 31, 0, 0, 0, 0), Date(2022, 2, 15, 12, 0, 0, 0)}

DayCalled ==
    /\ \E dom \in DomFields, dow \in DowFields : cFields = <<Star, Star, Star, dom, Star, dow>>
    /\ cT0 \in Days
    /\ cExpr = 0
    /\ cT = 0
    /\ cYear = 0
    /\ initFlag = 0
    /\ pcNext = "parse"
    /\ cRes = 0
    /\ cMatch = 0

DStep ==
    UNCHANGED <<connVars, srvVars, cliVars, rpcVars, sklVars, tmVars, goVars, modVars, parVars, gateVars>>

\* NewCronExpr(expr): the expression, or an error
CallNewCronExpr ==
    /\ pcNext = "parse"
    /\ LET r == NewCronExpr(cFields)
       IN  IF r.err = "nil"
           THEN cExpr' = r.cronExpr /\ pcNext' = "match"
           ELSE cExpr' = r.cronExpr /\ pcNext' = "invalid"
    /\ DStep
    /\ UNCHANGED <<cFields, cT0, cT, cYear, initFlag, cRes, cMatch>>

\* cronExpr.matchDay(t)
CallMatchDay ==
    /\ pcNext = "match"
    /\ cMatch' = matchDay(cExpr, cT0)
    /\ pcNext' = "matched"
    /\ DStep
    /\ UNCHANGED <<cFields, cExpr, cT0, cT, cYear, initFlag, cRes>>

DayNext == CallNewCronExpr \/ CallMatchDay

\* the calls of Next: every expression with every instant in UTC, and the
\* expressions with every minute with instants of a location at UTC+05:30
NextCalls ==
    (CronExprs \X Instants)
    \cup ({e \in CronExprs : e.min = 0..59}
          \X UNION {{In(Date(y, 1, 31, 12, 15, 30, 500000000), 330),
                     In(Date(y, 3, 1, 0, 0, 0, 0), 330)} : y \in InputYears})

\* e.Next(t) is called
NextCalled ==
    /\ \E c \in NextCalls : cExpr = c[1] /\ cT0 = c[2]
    /\ cT = cT0
    /\ cYear = 0
    /\ initFlag = FALSE
    /\ pcNext = "start"
    /\ cRes = ZeroTime
    /\ cFields = 0
    /\ cMatch = 0

NStep ==
    UNCHANGED <<connVars, srvVars, cliVars, rpcVars, sklVars, tmVars, goVars, modVars, parVars,
                gateVars, cFields, cMatch>>

\* a Next that starts the search at the second t lies in
NextStartAtT ==
    /\ pcNext = "start"
    /\ cT' = [cT EXCEPT !.nsec = 0]
    /\ cYear' = cT'.year
    /\ initFlag' = FALSE
    /\ pcNext' = "retry"
    /\ NStep
    /\ UNCHANGED <<cExpr, cT0, cRes>>

\* Next: t = t.Truncate(time.Second).Add(time.Second); year := t.Year()
NextStart ==
    /\ pcNext = "start"
    /\ cT' = AddSecond([cT EXCEPT !.nsec = 0])
    /\ cYear' = cT'.year
    /\ initFlag' = FALSE
    /\ pcNext' = "retry"
    /\ NStep
    /\ UNCHANGED <<cExpr, cT0, cRes>>

\* retry: if t.Year() > year+1, return the zero instant
NextRetry ==
    /\ pcNext = "retry"
    /\ IF cT.year > cYear + 1
       THEN cRes' = ZeroTime /\ pcNext' = "done"
       ELSE cRes' = cRes /\ pcNext' = "month"
    /\ NStep
    /\ UNCHANGED <<cExpr, cT0, cT, cYear, initFlag>>

\* the loop over the months: its test and one round
NextMonth ==
    /\ pcNext = "month"
    /\ IF cT.month \in cExpr.month
       THEN /\ pcNext' = "day"
            /\ UNCHANGED <<cT, initFlag>>
       ELSE /\ cT' = AddMonth(IF ~initFlag
                              THEN In(Date(cT.year, cT.month, 1, 0, 0, 0, 0), cT.zone)
                              ELSE cT)
            /\ initFlag' = TRUE
            /\ pcNext' = IF cT'.month = 1 THEN "retry" ELSE "month"
    /\ NStep
    /\ UNCHANGED <<cExpr, cT0, cYear, cRes>>

\* the loop over the days: its test and one round
NextDay ==
    /\ pcNext = "day"
    /\ IF matchDay(cExpr, cT)
       THEN /\ pcNext' = "hour"
            /\ UNCHANGED <<cT, initFlag>>
       ELSE /\ cT' = AddDay(IF ~initFlag
                            THEN In(Date(cT.year, cT.month, cT.day, 0, 0, 0, 0), cT.zone)
                            ELSE cT)
            /\ initFlag' = TRUE
            /\ pcNext' = IF cT'.day = 1 THEN "retry" ELSE "day"
    /\ NStep
    /\ UNCHANGED <<cExpr, cT0, cYear, cRes>>

\* the loop over the hours: its test and one round
NextHours ==
    /\ pcNext = "hour"
    /\ IF cT.hour \in cExpr.hour
       THEN /\ pcNext' = "minute"
            /\ UNCHANGED <<cT, initFlag>>
       ELSE /\ cT' = AddHour(IF ~initFlag THEN TruncateHour(cT) ELSE cT)
            /\ initFlag' = TRUE
            /\ pcNext' = IF cT'.hour = 0 THEN "retry" ELSE "hour"
    /\ NStep
    /\ UNCHANGED <<cExpr, cT0, cYear, cRes>>

\* the loop over the minutes: its test and one round
NextMinutes ==
    /\ pcNext = "minute"
    /\ IF cT.min \in cExpr.min
       THEN /\ pcNext' = "second"
            /\ UNCHANGED <<cT, initFlag>>
       ELSE /\ cT' = AddMinute(IF ~initFlag
                               THEN [cT EXCEPT !.sec = 0, !.nsec = 0] ELSE cT)
            /\ initFlag' = TRUE
            /\ pcNext' = IF cT'.min = 0 THEN "retry" ELSE "minute"
    /\ NStep
    /\ UNCHANGED <<cExpr, cT0, cYear, cRes>>

\* the loop over the seconds: its test and one round; return t
NextSeconds ==
    /\ pcNext = "second"
    /\ IF cT.sec \in cExpr.sec
       THEN /\ cRes' = cT
            /\ pcNext' = "done"
            /\ UNCHANGED <<cT, initFlag>>
       ELSE /\ cT' = AddSecond(cT)
            /\ initFlag' = TRUE
            /\ pcNext' = IF cT'.sec = 0 THEN "retry" ELSE "second"
            /\ cRes' = cRes
    /\ NStep
    /\ UNCHANGED <<cExpr, cT0, cYear>>

\* CronExpr.Next
CronNext ==
    NextStart \/ NextRetry \/ NextMonth \/ NextDay \/ NextHours \/ NextMinutes \/ NextSeconds

(***************************************************************************)
(* The gate.                                                               *)
(***************************************************************************)
Agents == 1..MaxAgents

\* a CallInfo on the server of the module: the agent it carries, what it
\* calls ("NewAgent", "msg", "CloseAgent") and, for a message, its number
\* among the messages the agent read
GateCall(a, what, k) == [agent |-> a, what |-> what, k |-> k]

NoGateCall == GateCall(0, "none", 0)

\* NewServer(l) with "NewAgent", "CloseAgent" and the handlers of the
\* routed messages registered; no connection accepted yet
GateInit ==
    /\ gtSrv \in [cap : {0, MaxGateLen}, closed : {FALSE}, cur : {NoGateCall}]
    /\ gtQueue = <<>>
    /\ gtAg = [a \in Agents |-> [pc |-> "none", read |-> 0, reply |-> "none"]]
    /\ gtEnq = <<>>
    /\ gtExec = <<>>

\* a step of a task of the gate
GtStep ==
    UNCHANGED <<connVars, srvVars, cliVars, rpcVars, sklVars, tmVars, goVars, modVars, parVars,
                cronVars>>

\* a send on s.ChanCall can complete
GateCanSend ==
    /\ ~gtSrv.closed
    /\ \/ Len(gtQueue) < gtSrv.cap
       \/ gtSrv.cap = 0 /\ gtSrv.cur = NoGateCall

\* the send of ci on s.ChanCall completes; on an unbuffered channel the loop
\* of the module receives ci in the same step
GateSent(ci) ==
    /\ IF gtSrv.cap = 0
       THEN gtSrv' = [gtSrv EXCEPT !.cur = ci] /\ UNCHANGED gtQueue
       ELSE gtQueue' = Append(gtQueue, ci) /\ UNCHANGED gtSrv
    /\ gtEnq' = Append(gtEnq, ci)

\* Server.Go / Client.call on the closed channel: the panic is recovered and
\* nothing is enqueued
GateNotSent == UNCHANGED <<gtSrv, gtQueue, gtEnq>>

\* TCPServer.run has accepted a connection: server.NewAgent(tcpConn) makes
\* the agent and begins gate.AgentChanRPC.Go("NewAgent", a); the accept loop
\* makes one agent at a time
GateAccept(a) ==
    /\ gtAg[a].pc = "none"
    /\ \A b \in Agents : gtAg[b].pc # "new"
    /\ \A b \in 1..(a - 1) : gtAg[b].pc # "none"
    /\ gtAg' = [gtAg EXCEPT ![a].pc = "new"]
    /\ GtStep
    /\ UNCHANGED <<gtSrv, gtQueue, gtEnq, gtExec>>

\* a NewAgent that starts the goroutine of the agent before its Go has sent
GateNewAgentSpawnsFirst(a) ==
    /\ gtAg[a].pc = "new"
    /\ gtAg' = [gtAg EXCEPT ![a].pc = "run"]
    /\ GateNotSent
    /\ GtStep
    /\ UNCHANGED <<gtExec>>

\* the send of Go("NewAgent", a) completes (or is dropped on the closed
\* channel), NewAgent returns and TCPServer.run starts the goroutine of the
\* agent: agent.Run()
GateNewAgent(a) ==
    /\ gtAg[a].pc = "new"
    /\ IF gtSrv.closed THEN GateNotSent
       ELSE GateCanSend /\ GateSent(GateCall(a, "NewAgent", 0))
    /\ gtAg' = [gtAg EXCEPT ![a].pc = "run"]
    /\ GtStep
    /\ UNCHANGED <<gtExec>>

\* the number of messages the agents have read
RECURSIVE SumRead(_)
SumRead(n) == IF n = 0 THEN 0 ELSE gtAg[n].read + SumRead(n - 1)

MsgsRead == SumRead(MaxAgents)

\* agent.Run: a.conn.ReadMsg() returns a message, Unmarshal succeeds and
\* Route begins i.msgRouter.Go(msgType, msg, a)
GateRead(a) ==
    /\ gtAg[a].pc = "run"
    /\ MsgsRead < MaxMsgs
    /\ gtAg' = [gtAg EXCEPT ![a].pc = "route", ![a].read = @ + 1]
    /\ GtStep
    /\ UNCHANGED <<gtSrv, gtQueue, gtEnq, gtExec>>

\* Processor.Route: the send of msgRouter.Go completes (or is dropped on the
\* closed channel) and the loop of agent.Run goes on
GateRoute(a) ==
    /\ gtAg[a].pc = "route"
    /\ IF gtSrv.closed THEN GateNotSent
       ELSE GateCanSend /\ GateSent(GateCall(a, "msg", gtAg[a].read))
    /\ gtAg' = [gtAg EXCEPT ![a].pc = "run"]
    /\ GtStep
    /\ UNCHANGED <<gtExec>>

\* agent.Run: ReadMsg, Unmarshal or Route returns an error and Run returns;
\* the goroutine closes the connection, deletes it from the set and calls
\* agent.OnClose()
GateRunReturns(a) ==
    /\ gtAg[a].pc = "run"
    /\ gtAg' = [gtAg EXCEPT ![a].pc = "onclose"]
    /\ GtStep
    /\ UNCHANGED <<gtSrv, gtQueue, gtEnq, gtExec>>

\* agent.OnClose: gate.AgentChanRPC.Call0("CloseAgent", a) up to its send;
\* on the closed channel the call returns the error
GateOnClose(a) ==
    /\ gtAg[a].pc = "onclose"
    /\ IF gtSrv.closed
       THEN /\ GateNotSent
            /\ gtAg' = [gtAg EXCEPT ![a].pc = "done"]
       ELSE /\ GateCanSend
            /\ GateSent(GateCall(a, "CloseAgent", 0))
            /\ gtAg' = [gtAg EXCEPT ![a].pc = "wait"]
    /\ GtStep
    /\ UNCHANGED <<gtExec>>

\* Call0: ri := <-c.chanSyncRet; OnClose returns
GateCallReturns(a) ==
    /\ gtAg[a].pc = "wait"
    /\ gtAg[a].reply # "none"
    /\ gtAg' = [gtAg EXCEPT ![a].pc = "done"]
    /\ GtStep
    /\ UNCHANGED <<gtSrv, gtQueue, gtEnq, gtExec>>

\* a loop that takes the newest call of the queue
GateLoopRecvNewest ==
    /\ gtSrv.cur = NoGateCall /\ ~gtSrv.closed
    /\ gtQueue # <<>>
    /\ gtSrv' = [gtSrv EXCEPT !.cur = gtQueue[Len(gtQueue)]]
    /\ gtQueue' = SubSeq(gtQueue, 1, Len(gtQueue) - 1)
    /\ GtStep
    /\ UNCHANGED <<gtAg, gtEnq, gtExec>>

\* the loop of the module: case ci := <-s.server.ChanCall
GateLoopRecv ==
    /\ gtSrv.cur = NoGateCall /\ ~gtSrv.closed
    /\ gtQueue # <<>>
    /\ gtSrv' = [gtSrv EXCEPT !.cur = Head(gtQueue)]
    /\ gtQueue' = Tail(gtQueue)
    /\ GtStep
    /\ UNCHANGED <<gtAg, gtEnq, gtExec>>

\* Server.Exec: the function of the call runs; a call with a reply slot
\* (CloseAgent) is answered
GateLoopExec ==
    /\ gtSrv.cur # NoGateCall
    /\ gtExec' = Append(gtExec, gtSrv.cur)
    /\ gtAg' = IF gtSrv.cur.what = "CloseAgent"
               THEN [gtAg EXCEPT ![gtSrv.cur.agent].reply = "executed"]
               ELSE gtAg
    /\ gtSrv' = [gtSrv EXCEPT !.cur = NoGateCall]
    /\ GtStep
    /\ UNCHANGED <<gtQueue, gtEnq>>

\* Server.Close, called by the loop of the module: close(s.ChanCall), and
\* every call left in it is answered "chanrpc server closed" when it has a
\* reply slot
GateServerClose ==
    /\ gtSrv.cur = NoGateCall /\ ~gtSrv.closed
    /\ gtSrv' = [gtSrv EXCEPT !.closed = TRUE]
    /\ gtQueue' = <<>>
    /\ gtAg' = [a \in Agents |->
                   IF \E i \in 1..Len(gtQueue) : gtQueue[i] = GateCall(a, "CloseAgent", 0)
                   THEN [gtAg[a] EXCEPT !.reply = "closed"]
                   ELSE gtAg[a]]
    /\ GtStep
    /\ UNCHANGED <<gtEnq, gtExec>>

\* TCPServer.run and the goroutine of an agent
GateAgent(a) ==
    \/ GateAccept(a) \/ GateNewAgent(a) \/ GateRead(a) \/ GateRoute(a)
    \/ GateRunReturns(a) \/ GateOnClose(a) \/ GateCallReturns(a)

\* the loop of the module that owns the server
GateModule == GateLoopRecv \/ GateLoopExec \/ GateServerClose

GateNext == (\E a \in Agents : GateAgent(a)) \/ GateModule

\* the gate, not in use: its variables hold no value
GateIdle ==
    /\ gtSrv = 0 /\ gtQueue = 0 /\ gtAg = 0 /\ gtEnq = 0 /\ gtExec = 0

\* the cron expression, not in use: its variables hold no value
CronIdle ==
    /\ cExpr = 0 /\ cT0 = 0 /\ cT = 0 /\ cYear = 0 /\ initFlag = 0 /\ pcNext = 0
    /\ cRes = 0 /\ cFields = 0 /\ cMatch = 0

\* the parser, not in use: its variables hold no value
ParIdle ==
    /\ parser = 0 /\ nSetCalls = 0 /\ nWrites = 0 /\ pConn = 0 /\ pWrote = 0
    /\ pReadRes = 0

\* the module registry, not in use: its variables hold no value
ModIdle ==
    /\ nMods = 0 /\ pcModInit = 0 /\ pcModDestroy = 0 /\ modRun = 0 /\ modWg = 0
    /\ modCloseSig = 0 /\ onInitLog = 0 /\ runStarts = 0 /\ sigLog = 0
    /\ onDestroyLog = 0 /\ onDestroyDone = 0 /\ onDestroyPanics = 0

\* the Go part, not in use: its variables hold no value
GoIdle ==
    /\ gCap = 0 /\ ChanCb = 0 /\ pendingGo = 0 /\ linearGo = 0 /\ mutexExecution = 0
    /\ goKind = 0 /\ goPc = 0 /\ goPair = 0 /\ curCb = 0 /\ pcG = 0 /\ nGo = 0
    /\ fLog = 0 /\ fActive = 0 /\ cbPut = 0 /\ cbRuns = 0

\* the timer part, not in use: its variables hold no value
TmIdle ==
    /\ tmCap = 0 /\ ChanTimer = 0 /\ tClock = 0 /\ tCb = 0 /\ curT = 0 /\ pcT = 0
    /\ nTimers = 0 /\ tCalls = 0 /\ tStopped = 0 /\ cronT = 0 /\ cronLog = 0

\* the skeleton part, not in use: its variables hold no value
SklIdle ==
    /\ GoLen = 0 /\ TimerDispatcherLen = 0 /\ AsynCallLen = 0 /\ serverCap = 0
    /\ closeSig = 0 /\ pcDestroy = 0 /\ pcSkRun = 0 /\ running = 0 /\ serverChanCall = 0
    /\ serverClosed = 0 /\ commandClosed = 0 /\ clientChanAsynRet = 0
    /\ clientPendingAsynCall = 0 /\ gChanCb = 0 /\ gPendingGo = 0
    /\ dispatcherChanTimer = 0 /\ goTasks = 0 /\ asynOut = 0 /\ nextTask = 0
    /\ events = 0 /\ cbDone = 0 /\ drained = 0 /\ closeLog = 0

\* the chanrpc part, not in use: its variables hold no value
RpcIdle ==
    /\ rCap = 0 /\ ChanCall = 0 /\ rClosed = 0 /\ pcLoop = 0 /\ curCi = 0 /\ curRi = 0
    /\ pcCall = 0 /\ callCi = 0 /\ chanSyncRet = 0 /\ lastRet = 0 /\ aCap = 0
    /\ ChanAsynRet = 0 /\ pendingAsynCall = 0 /\ pcGo = 0 /\ goCi = 0 /\ nextUid = 0
    /\ enq = 0 /\ execd = 0 /\ runs = 0 /\ replies = 0 /\ issued = 0 /\ retd = 0
    /\ cbLog = 0 /\ lastR = 0

\* the client of the third part, not in use: its variables hold no value
CliIdle ==
    /\ cProto = 0 /\ cConnNum = 0 /\ cAuto = 0 /\ cCloseFlag = 0 /\ cConns = 0
    /\ cConnsNil = 0 /\ cWg = 0 /\ pcDial = 0 /\ dConn = 0 /\ cSock = 0 /\ cConn = 0
    /\ pcCClose = 0 /\ cPanic = 0 /\ cRegistered = 0 /\ cNewAgentCalls = 0

\* the connection of the first part, not in use: its variables hold no value
ConnIdle ==
    /\ proto = 0 /\ conn = 0 /\ pcW = 0 /\ bufW = 0 /\ wire = 0 /\ accepted = 0
    /\ writeErr = 0 /\ lastOp = 0 /\ called = 0

\* the listener of the second part, not in use: its variables hold no value
SrvIdle ==
    /\ sProto = 0 /\ sMaxConnNum = 0 /\ lnClosed = 0 /\ pcRun = 0 /\ cur = 0
    /\ tempDelay = 0 /\ tempErrs = 0 /\ wgLn = 0 /\ wgConns = 0 /\ sConns = 0
    /\ sConnsNil = 0 /\ sock = 0 /\ sConn = 0 /\ agentPc = 0 /\ pcClose = 0
    /\ sPanic = 0 /\ registered = 0 /\ rejected = 0 /\ newAgentCalls = 0 /\ runCalls = 0
    /\ onCloseCalls = 0 /\ lastS = 0

\* one connection, its producers and its writer task
InitConn == ConnInit /\ SrvIdle /\ CliIdle /\ RpcIdle /\ SklIdle /\ TmIdle /\ GoIdle /\ ModIdle /\ ParIdle /\ CronIdle /\ GateIdle

SpecConn == InitConn /\ [][ConnNext]_vars

\* the writer task is a goroutine of its own: it runs whenever it can (the
\* steps of a part change the variables of that part only, so the fairness
\* conditions are stated on them)
FairSpecConn == SpecConn /\ WF_connVars(Writer)

\* one listener, its connections and its Close
InitServer == ConnIdle /\ SrvInit /\ CliIdle /\ RpcIdle /\ SklIdle /\ TmIdle /\ GoIdle /\ ModIdle /\ ParIdle /\ CronIdle /\ GateIdle

SpecServer == InitServer /\ [][SrvNext]_vars

InitClient == ConnIdle /\ SrvIdle /\ CliInit /\ RpcIdle /\ SklIdle /\ TmIdle /\ GoIdle /\ ModIdle /\ ParIdle /\ CronIdle /\ GateIdle

\* one client, its dialer tasks and its Close
SpecClient == InitClient /\ [][CliNext]_vars

\* every dialer is a goroutine of its own and runs whenever it can; an
\* agent's Run returns once its transport is closed; wg.Wait() returns once
\* the counter is zero
FairSpecClient ==
    /\ SpecClient
    /\ \A d \in Dialers : WF_cliVars(DialerFair(d))
    /\ WF_cliVars(ClientCloseReturns)

\* the asynchronous client is not in use: its reply queue plays no part
InitRpc == ConnIdle /\ SrvIdle /\ CliIdle /\ RpcInit /\ aCap = 0 /\ SklIdle /\ TmIdle /\ GoIdle /\ ModIdle /\ ParIdle /\ CronIdle /\ GateIdle

\* one chanrpc server with its consuming loop, its synchronous clients and
\* a task that uses Server.Go
SpecRpc == InitRpc /\ [][RpcNext]_vars

\* the consuming loop runs whenever it can, and a caller that can complete
\* its send or take its reply does
FairSpecRpc ==
    /\ SpecRpc
    /\ WF_rpcVars(ServerLoop) /\ WF_rpcVars(ServerCloseRpc)
    /\ \A c \in SyncClients : WF_rpcVars(CallSend(c) \/ CallRecv(c))

InitAsyn == ConnIdle /\ SrvIdle /\ CliIdle /\ RpcInit /\ SklIdle /\ TmIdle /\ GoIdle /\ ModIdle /\ ParIdle /\ CronIdle /\ GateIdle

\* one chanrpc server with its consuming loop, an asynchronous client and a
\* task that uses Server.Go
SpecAsyn == InitAsyn /\ [][AsynNext]_vars

\* the consuming loop and the owner of the asynchronous client run whenever
\* they can
FairSpecAsyn ==
    /\ SpecAsyn
    /\ WF_rpcVars(ServerLoop) /\ WF_rpcVars(ServerCloseRpc) /\ WF_rpcVars(AsynCb)

InitSkeleton == ConnIdle /\ SrvIdle /\ CliIdle /\ RpcIdle /\ SkInit /\ TmIdle /\ GoIdle /\ ModIdle /\ ParIdle /\ CronIdle /\ GateIdle

\* one module built on the skeleton: its Run loop, the handlers it calls,
\* the goroutines of its Go tasks, the servers it calls, its callers and
\* module.Destroy
SpecSkeleton == InitSkeleton /\ [][SklNext]_vars

InitTimer == ConnIdle /\ SrvIdle /\ CliIdle /\ RpcIdle /\ SklIdle /\ TmInit /\ GoIdle /\ ModIdle /\ ParIdle /\ CronIdle /\ GateIdle

\* one timer dispatcher, the clocks of its timers and the loop that owns it
SpecTimer == InitTimer /\ [][TmNext]_vars

\* one dispatcher with one Cron: CronFunc, the clocks of its timers, the loop
\* that owns the dispatcher, and Cron.Stop
SpecCronFunc == InitTimer /\ [][CronFuncNext]_vars

InitGate == ConnIdle /\ SrvIdle /\ CliIdle /\ RpcIdle /\ SklIdle /\ TmIdle /\ GoIdle /\ ModIdle /\ ParIdle /\ CronIdle /\ GateInit

\* the gate with its agents and the module whose server they call
SpecGate == InitGate /\ [][GateNext]_vars

InitGo == ConnIdle /\ SrvIdle /\ CliIdle /\ RpcIdle /\ SklIdle /\ TmIdle /\ GoInit /\ ModIdle /\ ParIdle /\ CronIdle /\ GateIdle

\* one Go helper with one LinearContext, the goroutines of the submitted
\* pairs and the loop that owns the helper
SpecGo == InitGo /\ [][GoNext]_vars

InitModules == ConnIdle /\ SrvIdle /\ CliIdle /\ RpcIdle /\ SklIdle /\ TmIdle /\ GoIdle /\ ModInit /\ ParIdle /\ CronIdle /\ GateIdle

\* the registered modules, the task that calls Init and then Destroy, and
\* the goroutine run of each module
SpecModules == InitModules /\ [][ModNext]_vars

InitParser == ConnIdle /\ SrvIdle /\ CliIdle /\ RpcIdle /\ SklIdle /\ TmIdle /\ GoIdle /\ ModIdle /\ ParInit /\ CronIdle /\ GateIdle

\* one parser and its connection: the set-up calls, the writes, the close
\* and the reads of the peer
SpecParser == InitParser /\ [][ParNext]_vars

InitCron == ConnIdle /\ SrvIdle /\ CliIdle /\ RpcIdle /\ SklIdle /\ TmIdle /\ GoIdle /\ ModIdle /\ ParIdle /\ NextCalled /\ GateIdle

\* one call of CronExpr.Next, on any of the expressions with any of the instants
SpecCron == InitCron /\ [][CronNext]_vars

\* the call goes on as long as it has a step to take
FairSpecCron == SpecCron /\ WF_cronVars(CronNext)

InitDay == ConnIdle /\ SrvIdle /\ CliIdle /\ RpcIdle /\ SklIdle /\ TmIdle /\ GoIdle /\ ModIdle /\ ParIdle /\ DayCalled /\ GateIdle

\* NewCronExpr on any of the written expressions, then matchDay on any of the days
SpecDay == InitDay /\ [][DayNext]_vars

(***************************************************************************)
(* Properties of the connection (SpecConn).                                *)
(***************************************************************************)
IsPrefix(s, t) == Len(s) <= Len(t) /\ SubSeq(t, 1, Len(s)) = s

\* the step is a Write with a non-nil buffer, or a WriteMsg with a message
\* whose length passes the length check
WriteStep ==
    \/ lastOp'.name = "Write" /\ lastOp'.argLen >= 0
    \/ lastOp'.name = "WriteMsg" /\ lastOp'.argLen >= 1 /\ lastOp'.argLen <= conn.maxMsgLen

C2_CloseOnceIdempotent ==
    [][/\ ~conn'.panicked
       /\ (\/ lastOp'.name = "Close" /\ called.Close >= 1
           \/ lastOp'.name = "Destroy" /\ called.Destroy >= 1)
          => /\ conn'.closeFlag = conn.closeFlag
             /\ conn'.writeChan = conn.writeChan
             /\ conn'.chanClosed = conn.chanClosed]_vars

\* C2 witness: Close and Destroy were both called twice, the second Destroy last,
\* after buffers were written and the writer task has exited
C2_Witness ==
    /\ called.Close = 2 /\ called.Destroy = 2
    /\ lastOp.name = "Destroy"
    /\ pcW = "done" /\ accepted # <<>>

\* C3 as stated: Close on a connection that is not closed enqueues the nil
\* sentinel and sets the closed flag without closing the transport.
C3_CloseAlwaysGraceful ==
    [][(lastOp'.name = "Close" /\ ~conn.closeFlag)
        => /\ conn'.writeChan = Append(conn.writeChan, Nil)
           /\ conn'.closeFlag
           /\ conn'.connClosed = conn.connClosed]_vars

\* history: Close has enqueued the sentinel, no transport write failed and
\* Destroy was not called
GracefulClose ==
    /\ called.Close >= 1 /\ called.Destroy = 0
    /\ ~conn.chanClosed /\ ~writeErr

\* C3: Close on a connection that is not closed and whose write queue
\* is not full enqueues the nil sentinel and sets the closed flag without
\* closing the transport; afterwards (absent a write error and a Destroy) the
\* transport is closed only by the writer task, and only once every buffer
\* enqueued before the sentinel has been written; and after a Close the
\* writer task does close the transport and exits.
C3_CloseGraceful ==
    [][/\ (lastOp'.name = "Close" /\ ~conn.closeFlag /\ Len(conn.writeChan) < conn.cap)
          => /\ conn'.writeChan = Append(conn.writeChan, Nil)
             /\ conn'.closeFlag
             /\ conn'.connClosed = conn.connClosed
       /\ (GracefulClose' /\ conn'.connClosed)
          => /\ wire' = accepted'
             /\ pcW' \in {"flag", "done"}
             /\ conn'.writeChan = <<>>]_vars
    /\ ((called.Close >= 1) ~> (conn.connClosed /\ pcW = "done"))

\* C3 witness: after a graceful Close the writer task has written two buffers,
\* met the sentinel and closed the transport
C3_Witness ==
    /\ GracefulClose /\ conn.connClosed
    /\ Len(wire) >= 2 /\ wire = accepted
    /\ pcW = "done"

\* C4: the buffers accepted by Write are written to the transport in the order
\* in which they were enqueued, each at most once, and none while an earlier
\* accepted buffer is unwritten: what is on the wire is a prefix of what was
\* accepted, and the buffer in the writer's hands is the next one.
C4_WriteOrder ==
    /\ IsPrefix(wire, accepted)
    /\ pcW = "write" => /\ Len(wire) < Len(accepted)
                        /\ bufW.data = accepted[Len(wire) + 1]

\* C4 witness: two different buffers are on the wire
C4_Witness ==
    /\ Len(wire) >= 2 /\ wire[1] # wire[2]

C6_ClosedStaysClosed ==
    [][conn.closeFlag
        => /\ conn'.closeFlag
           /\ lastOp'.name \in {"Write", "WriteMsg"}
              => /\ conn'.writeChan = conn.writeChan
                 /\ conn'.chanClosed = conn.chanClosed
                 /\ conn'.connClosed = conn.connClosed
                 /\ conn'.linger0 = conn.linger0
                 /\ wire' = wire /\ accepted' = accepted]_vars

\* C6 witness: a Write of a non-nil buffer was refused on a connection that the
\* exiting writer task had flagged closed while its queue still has room
C6_Witness ==
    /\ lastOp.name = "Write" /\ lastOp.argLen >= 0 /\ lastOp.outcome = "nothing"
    /\ conn.closeFlag /\ ~conn.chanClosed /\ called.Close = 0
    /\ Len(conn.writeChan) < conn.cap

(***************************************************************************)
(* Properties of the listener (SpecServer).                                *)
(***************************************************************************)
\* the step is the capacity check, under mutexConns, for the transport c
CheckStep(c) ==
    \/ sProto = "tcp" /\ pcRun = "register" /\ cur = c /\ pcRun' # "register"
    \/ sProto = "ws" /\ agentPc[c] = "counted" /\ agentPc'[c] # "counted"

\* C7: the connection set of a listener (TCPServer, WSHandler) never holds more
\* than MaxConnNum connections; a transport that arrives while the set holds
\* MaxConnNum entries is closed at once and not added to the set, and no agent
\* is ever created or run for it.
C7_ConnSetBounded ==
    [][/\ Cardinality(sConns') <= sMaxConnNum
       /\ \A c \in Transports :
             (CheckStep(c) /\ Cardinality(sConns) >= sMaxConnNum)
                => /\ sock'[c] = "closed"
                   /\ sConns' = sConns
                   /\ c \in rejected'
       /\ \A c \in rejected' :
             /\ c \notin registered' /\ c \notin sConns'
             /\ c \notin DOMAIN sConn'
             /\ newAgentCalls'[c] = 0 /\ runCalls'[c] = 0 /\ onCloseCalls'[c] = 0]_vars

\* C7 witness: a listener with MaxConnNum = 2 holds two connections and has
\* turned a third transport away
C7_Witness ==
    /\ sMaxConnNum = 2 /\ Cardinality(sConns) = 2
    /\ rejected # {}
    /\ \A c \in rejected : sock[c] = "closed"

\* C8: when TCPServer.Close has returned, the accept loop has exited and no
\* per-connection task of the server is still running.
C8_CloseWaitsForAll ==
    (sProto = "tcp" /\ pcClose = "returned")
        => /\ pcRun = "exited"
           /\ \A c \in Transports : agentPc[c] \in {"none", "done"}

\* C9: for every transport a TCP server registers, NewAgent is called exactly
\* once and Run is executed once, by a task other than the accept loop; OnClose
\* is invoked at most once, only after Run has returned, the connection has
\* been closed and has left the connection set, and exactly once by the time
\* the per-connection task ends.  No agent exists for an unregistered transport.
C9_AgentLifecycle ==
    [][(sProto = "tcp") =>
        \A c \in Transports :
            /\ newAgentCalls'[c] <= 1 /\ runCalls'[c] <= 1 /\ onCloseCalls'[c] <= 1
            /\ (c \in registered' /\ ~(pcRun' = "spawn" /\ cur' = c)) => newAgentCalls'[c] = 1
            /\ newAgentCalls'[c] = 1 => c \in registered'
            /\ runCalls'[c] = 1 => newAgentCalls'[c] = 1
            /\ runCalls'[c] # runCalls[c] => (pcRun' = pcRun /\ cur' = cur)
            /\ onCloseCalls'[c] = 1
                  => /\ runCalls'[c] = 1
                     /\ agentPc'[c] \in {"onclose", "done"}
                     /\ sConn'[c].closeFlag
                     /\ c \notin sConns'
            /\ agentPc'[c] = "done" => onCloseCalls'[c] = 1]_vars

\* C9 witness: one connection has gone through Run, Close, removal and OnClose
\* while the agent of another connection is still running
C9_Witness ==
    /\ sProto = "tcp"
    /\ \E c, c2 \in Transports :
          /\ agentPc[c] = "done" /\ onCloseCalls[c] = 1 /\ newAgentCalls[c] = 1
          /\ agentPc[c2] = "running" /\ c2 \in sConns

\* every dialer task of the client has returned
DialersExited == \A d \in Dialers : pcDial[d] \in {"done", "unused"}

\* once closeFlag is set every dialer exits and Close returns, with and
\* without AutoReconnect, whether the connection attempts succeed or fail
DialersExit ==
    /\ (cCloseFlag ~> DialersExited)
    /\ (cCloseFlag ~> (pcCClose = "returned"))

\* without AutoReconnect the step of a dialer after OnClose returned is its
\* exit, and no dialer goes back to dialing
ExitAfterOnClose ==
    [][\A d \in Dialers :
          /\ (~cAuto /\ pcDial[d] = "onclose" /\ pcDial'[d] # pcDial[d])
                => (pcDial'[d] = "done" /\ cWg' = cWg - 1)
          /\ (pcDial[d] # "dial" /\ pcDial'[d] = "dial") => cAuto]_vars

\* C10 as stated: after Close has set the close flag no dialer registers a
\* connection and no dialer creates an agent; every dialer exits and Close
\* returns; without AutoReconnect a dialer exits when OnClose returned.
C10_NoAgentAfterClose ==
    /\ [][cCloseFlag => (cRegistered' = cRegistered
                           /\ cNewAgentCalls' = cNewAgentCalls)]_vars
    /\ DialersExit
    /\ ExitAfterOnClose

\* C10: after Close has set the close flag no dialer registers a connection,
\* and an agent is created only for a connection that was registered before
\* the flag was set and that Close has closed; every dialer exits and Close
\* returns, also with AutoReconnect and also when connection attempts fail;
\* without AutoReconnect a dialer exits when OnClose returned.
C10_CloseStopsDialers ==
    /\ [][cCloseFlag =>
            /\ cRegistered' = cRegistered
            /\ \A t \in Dialed :
                  cNewAgentCalls'[t] # cNewAgentCalls[t]
                     => (t \in cRegistered /\ cSock[t] = "closed")]_vars
    /\ DialersExit
    /\ ExitAfterOnClose

\* Close has returned with AutoReconnect set: both dialers have exited, one
\* agent was created after the flag for a connection registered before it,
\* and a connection established after the flag was closed unregistered
C10_Witness ==
    /\ cAuto /\ cConnNum = 2
    /\ pcCClose = "returned" /\ DialersExited
    /\ \E t, t2 \in Dialed :
          /\ t \in cRegistered /\ cNewAgentCalls[t] = 1 /\ cSock[t] = "closed"
          /\ t2 \notin cRegistered /\ cSock[t2] = "closed"

(***************************************************************************)
(* Properties of chanrpc (SpecRpc, SpecAsyn).                              *)
(***************************************************************************)
\* C11: the consuming loop executes the calls in the order in which they
\* entered the request queue, and the synchronous calls of one client return
\* in the order in which the client issued them.
C11_ExecInEnqueueOrder ==
    /\ IsPrefix(execd, enq)
    /\ \A c \in SyncClients : IsPrefix(retd[c], issued[c])

\* C11 witness: a call of Server.Go and a synchronous call were enqueued, both
\* have been executed, and the synchronous call has returned
C11_Witness ==
    /\ Len(execd) = 2 /\ execd = enq
    /\ \E c \in SyncClients : retd[c] # <<>> /\ retd[c] = issued[c]
    /\ lastR.op = "Call" /\ lastR.outcome = "returned"
    /\ \E u \in Uids :
          /\ runs[u] # <<>>
          /\ \A c \in SyncClients : \A i \in 1..Len(issued[c]) : issued[c][i] # u

\* the elements of a sequence
Range(q) == {q[i] : i \in 1..Len(q)}

\* the last call of the synchronous client c went through the consuming
\* loop: what it returned is the reply of an executed call
Executed(c) ==
    /\ pcCall[c] = "idle" /\ lastRet[c].uid = callCi[c].uid
    /\ lastRet[c].uid # 0
    /\ lastRet[c].err \in {"nil", "panic"}

\* C12: a synchronous call that the consuming loop executes makes the
\* registered function run exactly once, with the arguments of the call; if
\* the function returns, the call returns what the function produced (nothing
\* for Call0, the value for Call1, the slice for CallN) and a nil error; and
\* no call returns while it is still queued or while its function is running.
C12_SyncCallRunsOnce ==
    /\ \A c \in SyncClients :
          Executed(c) =>
             LET r == lastRet[c]
                 ci == callCi[c]
             IN  /\ r.id = ci.f /\ r.n = functions[ci.f]
                 /\ Len(runs[r.uid]) = 1
                 /\ runs[r.uid][1].args = ci.args /\ ci.args = RpcArgs(r.uid)
                 /\ replies[r.uid] = 1
                 /\ (r.err = "nil") = (runs[r.uid][1].ending = "returns")
                 /\ r.err = "nil" =>
                       r.ret = IF r.n = 0 THEN NilRet ELSE Apply(ci.f, ci.args)
    /\ \A c \in SyncClients : \A u \in Range(retd[c]) :
          /\ \A i \in 1..Len(ChanCall) : ChanCall[i].uid # u
          /\ ~(pcLoop = "exec" /\ curCi.uid = u)

\* C12 witness: the second call of a client, a Call1, has returned the value
\* its function produced, after a CallN of the same client
C12_Witness ==
    \E c \in SyncClients :
       /\ Executed(c) /\ lastRet[c].err = "nil" /\ lastRet[c].n = 1
       /\ lastRet[c].ret = [kind |-> "value", fn |-> "f1", of |-> <<2>>]
       /\ retd[c] = <<1, 2>> /\ runs[1] # <<>> /\ runs[1][1].ending = "returns"
       /\ lastR.outcome = "returned"

\* the synchronous client c has just begun a call
Begins(c) == issued'[c] # issued[c]

\* the errors with which Client.f refuses a call
Refusals == {"function not registered", "return type mismatch"}

\* C13: a synchronous call with an id that is not registered, or with a
\* variant that is not the shape of the registered function, returns an error
\* at once: nothing enters the request queue and no function runs for it,
\* then or later.
C13_MismatchRefused ==
    [][/\ \A c \in SyncClients : Begins(c) =>
             LET r == lastRet'[c]
             IN  (r.id \notin Registered \/ functions[r.id] # r.n) =>
                    /\ r.err = IF r.id \notin Registered
                               THEN "function not registered" ELSE "return type mismatch"
                    /\ pcCall'[c] = "idle" /\ retd'[c] = Append(retd[c], r.uid)
                    /\ UNCHANGED <<ChanCall, enq, curCi, pcLoop, execd, runs, replies>>
       /\ \A c \in SyncClients : lastRet'[c].err \in Refusals =>
             /\ lastRet'[c].uid \notin Range(enq')
             /\ runs'[lastRet'[c].uid] = <<>>]_vars

\* C13 witness: after a call that was executed, a call of variant CallN to a
\* function registered with the shape of Call1 has been refused
C13_Witness ==
    /\ lastR.op = "Call" /\ lastR.outcome = "refused" /\ lastR.uid = 2
    /\ \E c \in SyncClients :
          /\ lastRet[c].err = "return type mismatch"
          /\ lastRet[c].id = "f1" /\ lastRet[c].n = 2
    /\ runs[1] # <<>> /\ enq = <<1>>

\* the call u of the synchronous client c has been answered "server closed":
\* the reply waits in the client's reply slot or the call has returned it
ClosedReply(c, u) ==
    \/ /\ pcCall[c] = "wait" /\ callCi[c].uid = u
       /\ Len(chanSyncRet[c]) = 1
       /\ chanSyncRet[c][1].uid = u /\ chanSyncRet[c][1].err = "server closed"
    \/ /\ u \in Range(retd[c])
       /\ lastRet[c].uid = u => lastRet[c].err = "server closed"

\* C14: Server.Close closes the request queue, and when it has returned the
\* queue is empty and every call that was enqueued and not executed has been
\* answered with exactly one "server closed" reply on its reply slot, so a
\* synchronous caller waiting for such a call finds its reply; no function
\* runs for these calls, and a call without reply slot gets no reply.
C14_CloseAnswersResidual ==
    /\ pcLoop \in {"drain", "returned"} => rClosed
    /\ pcLoop = "returned" =>
          /\ ChanCall = <<>>
          /\ \A c \in SyncClients : \A u \in Range(issued[c]) \cap Range(enq) :
                runs[u] = <<>> => (replies[u] = 1 /\ ClosedReply(c, u))
          /\ \A c \in SyncClients :
                (pcCall[c] = "wait" /\ runs[callCi[c].uid] = <<>>) => chanSyncRet[c] # <<>>
          /\ \A u \in Range(enq) :
                (\A c \in SyncClients : u \notin Range(issued[c])) => replies[u] = 0

\* C14 witness: Close has returned; a synchronous call and a Go call were
\* still queued when it began, and the synchronous caller, still waiting,
\* has the "server closed" reply in its slot
C14_Witness ==
    /\ pcLoop = "returned" /\ Len(enq) = 2 /\ execd = <<>>
    /\ \E c \in SyncClients :
          /\ pcCall[c] = "wait" /\ ClosedReply(c, callCi[c].uid)
          /\ \E u \in Range(enq) : u # callCi[c].uid

\* the consuming loop finishes the call whose function has just panicked
PanicHandled ==
    /\ pcLoop = "ret" /\ pcLoop' # "ret"
    /\ runs[curCi.uid][Len(runs[curCi.uid])].ending # "returns"

\* C15: when the function of a call panics, Exec returns normally and the
\* loop goes back to its select to execute the next call; a call with a reply
\* slot gets exactly one reply, with a non-nil error, on that slot.
C15_PanicRecovered ==
    [][PanicHandled =>
          /\ pcLoop' = "select"
          /\ curCi.chanRet = "sync" =>
                /\ replies[curCi.uid] = 0 /\ replies'[curCi.uid] = 1
                /\ chanSyncRet'[curCi.owner] # <<>>
                /\ chanSyncRet'[curCi.owner][1].uid = curCi.uid
                /\ chanSyncRet'[curCi.owner][1].err # "nil"]_vars

\* the step is a call of AsynCall
AsynCalled == lastR'.op = "AsynCall" /\ nextUid' = nextUid + 1

\* C16: an AsynCall made while pendingAsynCall >= cap(ChanAsynRet) calls the
\* callback at once, in the caller, with the "too many calls" error, exactly
\* once; nothing enters the server's request queue or the async-reply queue
\* and pendingAsynCall keeps its value.
C16_TooManyCalls ==
    [][(AsynCalled /\ pendingAsynCall >= aCap) =>
          /\ Len(cbLog') = Len(cbLog) + 1
          /\ SubSeq(cbLog', 1, Len(cbLog)) = cbLog
          /\ cbLog'[Len(cbLog')].uid = nextUid'
          /\ cbLog'[Len(cbLog')].err = "too many calls"
          /\ cbLog'[Len(cbLog')].by = "caller"
          /\ UNCHANGED <<ChanCall, enq, curCi, pcLoop, ChanAsynRet, pendingAsynCall>>]_vars

\* C16 witness: with one admitted call still pending on a reply queue of
\* capacity 1, a second AsynCall has had its callback called at once
C16_Witness ==
    /\ aCap = 1 /\ pendingAsynCall = 1
    /\ lastR.op = "AsynCall" /\ lastR.outcome = "tooMany" /\ lastR.uid = 2
    /\ Len(cbLog) = 1 /\ cbLog[1].err = "too many calls" /\ cbLog[1].uid = 2
    /\ enq = <<1>>

\* the server's request queue is open and a send on it cannot complete now
QueueFull == ~rClosed /\ ~CanSend

\* C17: an AsynCall that is admitted (pendingAsynCall < cap(ChanAsynRet)) and
\* finds the server's request queue full does not block: the request queue is
\* left alone, a RetInfo with the "channel full" error (the error of Client.f
\* for a call that f refuses) and the callback is appended to the client's
\* own ChanAsynRet, and pendingAsynCall grows by one; when the owner takes that
\* RetInfo the callback is called with its error and pendingAsynCall drops.
C17_FullQueueNoBlock ==
    /\ [][(AsynCalled /\ pendingAsynCall < aCap /\ QueueFull) =>
             /\ lastR'.outcome \in {"full", "refused"}
             /\ \E n \in 0..2, e \in Refusals \cup {"channel full"} :
                   /\ (e = "channel full") = (lastR'.outcome = "full")
                   /\ ChanAsynRet' = Append(ChanAsynRet, RetInfo(nextUid', NilRet, e, n))
             /\ pendingAsynCall' = pendingAsynCall + 1
             /\ UNCHANGED <<ChanCall, enq, curCi, pcLoop, cbLog>>]_vars
    /\ [][pendingAsynCall' < pendingAsynCall =>
             /\ ChanAsynRet # <<>> /\ ChanAsynRet' = Tail(ChanAsynRet)
             /\ pendingAsynCall' = pendingAsynCall - 1
             /\ lastR'.op = "Cb" /\ lastR'.uid = ChanAsynRet[1].uid
             /\ Len(cbLog') = Len(cbLog) + 1
             /\ cbLog'[Len(cbLog')].uid = ChanAsynRet[1].uid
             /\ cbLog'[Len(cbLog')].err = ChanAsynRet[1].err
             /\ cbLog'[Len(cbLog')].by = "owner"]_vars
    /\ [](lastR.outcome # "blocked")

\* C17 witness: the request queue of capacity 1 held a call of Server.Go when
\* an AsynCall was admitted; its callback has been called by the owner with
\* the "channel full" error
C17_Witness ==
    /\ rCap = 1 /\ aCap = 1 /\ enq = <<1>> /\ pendingAsynCall = 0
    /\ lastR.op = "Cb" /\ lastR.uid = 2
    /\ Len(cbLog) = 1 /\ cbLog[1].uid = 2
    /\ cbLog[1].err = "channel full" /\ cbLog[1].by = "owner"

\* the calls made with Server.Go (SpecRpc has no other caller than the
\* synchronous clients)
GoUids == {u \in 1..nextUid : \A c \in SyncClients : u \notin Range(issued[c])}

\* the CallInfos that are in the request queue or being executed
InServer == Range(ChanCall) \cup (IF curCi = NoCall THEN {} ELSE {curCi})

\* C18: Server.Go enqueues a CallInfo without reply slot and tells the caller
\* nothing: a Go for an id that is not registered enqueues nothing, a Go on
\* a server whose request queue is closed returns without enqueuing (the
\* panic of the send is recovered), and no reply is sent to any queue for a
\* call enqueued by Go, whether it is executed, panics, or is drained by
\* Server.Close.
C18_GoNoFeedback ==
    /\ [](\A u \in GoUids :
            /\ replies[u] = 0
            /\ \A c \in SyncClients : \A i \in 1..Len(chanSyncRet[c]) :
                  chanSyncRet[c][i].uid # u
            /\ \A i \in 1..Len(ChanAsynRet) : ChanAsynRet[i].uid # u
            /\ \A ci \in InServer :
                  ci.uid = u => ci.chanRet = "nil" /\ ci.f \in Registered)
    /\ [][(lastR'.op = "Go" /\ nextUid' = nextUid + 1) =>
             /\ UNCHANGED <<ChanCall, enq, curCi, pcLoop>>
             /\ (pcGo' = "send") = (goCi'.f \in Registered /\ goCi'.uid = nextUid')
             /\ pcGo' # "send" => lastR'.outcome = "nothing" /\ pcGo' = "idle"]_vars
    /\ [][(pcGo = "send" /\ rClosed /\ pcGo' # pcGo) =>
             /\ pcGo' = "idle" /\ lastR'.outcome = "recovered"
             /\ UNCHANGED <<ChanCall, enq, curCi, pcLoop>>]_vars

\* C18 witness: a call enqueued by Go was executed and the loop is back at
\* its select with no reply sent; a later Go found the queue closed
C18_Witness ==
    /\ 1 \in GoUids /\ execd = <<1>> /\ replies[1] = 0
    /\ 2 \in GoUids /\ lastR = [op |-> "Go", outcome |-> "recovered", uid |-> 2]
    /\ enq = <<1>> /\ pcGo = "idle"

\* the loop takes something from one of its sources
Dequeues ==
    \/ running' \ running # {}
    \/ closeSig' < closeSig
    \/ Len(serverChanCall') < Len(serverChanCall)
    \/ Len(clientChanAsynRet') < Len(clientChanAsynRet)
    \/ Len(gChanCb') < Len(gChanCb)
    \/ Len(dispatcherChanTimer') < Len(dispatcherChanTimer)

\* C19: in one Skeleton.Run loop at most one event handler (service RPC
\* function, command RPC function, async-reply callback, Go callback, timer
\* callback) is executing at any time, and the loop takes the next event
\* from a source, the close signal included, only when the handler of the
\* event before has returned.
C19_OneHandlerAtATime ==
    /\ [](Cardinality(running) <= 1)
    /\ [][Dequeues => running = {}]_vars

\* C19 witness: a handler is executing while a reply, a Go callback and the
\* close signal wait in their queues
C19_Witness ==
    /\ Cardinality(running) = 1
    /\ pcSkRun = "select"
    /\ clientChanAsynRet # <<>> /\ gChanCb # <<>> /\ closeSig = 1

\* C20: on the close signal Skeleton.Run closes the command server, then the
\* service server, and then executes only async-reply callbacks and Go
\* callbacks, until both pending counters are zero; when Run has returned
\* both counters are zero and every asynchronous call and every Go task the
\* module submitted has had its callback executed.
C20_CloseDrains ==
    /\ [](pcSkRun = "serverClose" => closeLog = <<"command">> /\ commandClosed /\ ~serverClosed)
    /\ [](pcSkRun \in {"idleCheck", "gClose", "clientClose", "returned"} =>
             closeLog = <<"command", "server">> /\ commandClosed /\ serverClosed)
    /\ [][(pcSkRun # "select" /\ running' \ running # {}) =>
             \A h \in running' \ running : h.kind \in {"goCb", "asynCb"}]_vars
    /\ [](pcSkRun = "returned" =>
             /\ gPendingGo = 0 /\ clientPendingAsynCall = 0
             /\ running = {}
             /\ cbDone = 1..nextTask)

\* C20 witness: Run has returned after its drain executed the callback of a
\* Go task and the callback of an asynchronous call
C20_Witness ==
    /\ pcSkRun = "returned" /\ pcDestroy = "done"
    /\ nextTask = 2 /\ cbDone = {1, 2} /\ drained = {1, 2}
    /\ GoLen = 1 /\ AsynCallLen = 1

\* Run has taken the close signal that module.Destroy sent
CloseObserved == pcDestroy # "idle" /\ closeSig = 0

\* the handlers that start in this step
Started == running' \ running

\* C21 as stated: after Skeleton.Run has observed the close signal the loop
\* runs no callback at all (no RPC function, async-reply callback, Go
\* callback or timer callback).
C21_NoCallbackAfterClose ==
    [][CloseObserved => Started = {}]_vars

\* C21: after Skeleton.Run has observed the close signal the loop runs no
\* RPC function of the service or command server and no timer callback; the
\* only handlers it still starts are Go callbacks, from Go.Close, and
\* async-reply callbacks, from Client.Close; once Run has returned no handler
\* is executing and none starts.
C21_OnlyDrainAfterClose ==
    /\ [][(CloseObserved /\ Started # {}) =>
             \A h \in Started :
                \/ h.kind = "goCb" /\ pcSkRun = "gClose"
                \/ h.kind = "asynCb" /\ pcSkRun = "clientClose"]_vars
    /\ [](pcSkRun = "returned" => CloseObserved /\ running = {})
    /\ [][pcSkRun = "returned" => Started = {}]_vars

\* C21 witness: after the close signal a Go callback is executing, called by
\* Go.Close, while a timer that fired waits in the dispatcher's channel
C21_Witness ==
    /\ CloseObserved /\ pcSkRun = "gClose"
    /\ \E h \in running : h.kind = "goCb"
    /\ dispatcherChanTimer # <<>>

\* the loop takes the timer t from the dispatcher's channel in this step
TakesTimer(t) ==
    \/ ChanTimer # <<>> /\ Head(ChanTimer) = t /\ ChanTimer' = Tail(ChanTimer)
    \/ tmCap = 0 /\ tClock[t] = "expired" /\ tClock'[t] = "sent"

\* C22: once Timer.Stop has been called on a timer by the owner of the
\* dispatcher its callback is never invoked, also when the timer had expired
\* and its entry is still in the dispatcher's channel: the Cb of that entry
\* changes nothing; the callback of any timer is invoked at most once, and
\* only in the step in which the loop takes that timer from the channel.
C22_StoppedTimerNeverCalled ==
    /\ [][\A t \in tStopped : tCalls'[t] = tCalls[t]]_vars
    /\ [][\A t \in tStopped : TakesTimer(t) =>
             UNCHANGED <<tCb, curT, pcT, tCalls, tStopped, nTimers>>]_vars
    /\ [](\A t \in Timers : tCalls[t] <= 1)
    /\ [][\A t \in Timers : tCalls'[t] # tCalls[t] =>
             /\ TakesTimer(t) /\ pcT = "idle"
             /\ curT' = t /\ pcT' = "cb"]_vars

\* C22 witness: timer 1 expired and was sent, then stopped while its entry
\* waited in the channel; the loop has taken the entry and the callback was
\* not invoked, while the callback of timer 2 was invoked once
C22_Witness ==
    /\ tmCap = 1
    /\ 1 \in tStopped /\ tClock[1] = "sent" /\ ChanTimer = <<>>
    /\ tCalls[1] = 0 /\ tCalls[2] = 1 /\ pcT = "idle"

\* the pairs of q that were submitted to the LinearContext
LinearOf(q) == SelectSeq(q, LAMBDA e : goKind[e] = "linear")

\* the pairs submitted so far, in the order of their submission
Submitted == [i \in 1..nGo |-> i]

\* C23: the f functions of the pairs submitted to one LinearContext execute
\* one at a time and in exactly the order in which the pairs were submitted,
\* whatever the order in which the goroutines acquire the execution mutex;
\* a submission is always possible at once: it waits neither for an earlier
\* f nor for the execution mutex.
C23_LinearOrder ==
    /\ [](Cardinality({e \in fActive : goKind[e] = "linear"}) <= 1)
    /\ [](IsPrefix(LinearOf(fLog), LinearOf(Submitted)))
    /\ [](nGo < MaxGoTasks => ENABLED LinearContextGo)

\* C23 witness: of two pairs submitted to the LinearContext the goroutine of
\* the second acquired the execution mutex first; f of pair 1 ran in it, and
\* pair 3 was submitted while f of pair 2 was executing
C23_Witness ==
    /\ goKind[1] = "linear" /\ goKind[2] = "linear" /\ goKind[3] = "linear"
    /\ goPair[2] = 1 /\ goPair[1] = 2
    /\ fLog = <<1, 2>> /\ fActive = {2} /\ linearGo = <<3>>

\* the pairs submitted with Go.Go
PlainGo == {e \in 1..nGo : goKind[e] = "go"}

\* C24: for every Go.Go(f, cb), cb is put on g.ChanCb exactly once and only
\* after f has ended, by return or by panic; cb is executed only by the loop
\* that owns the helper, in the step in which the loop takes it from the
\* channel, and never by the goroutine that ran f; pendingGo is incremented
\* by the submission and decremented only when the loop has executed a cb.
C24_CbOnceAfterF ==
    /\ [](\A e \in PlainGo :
            /\ cbPut[e] = (IF goPc[e] = "done" THEN 1 ELSE 0)
            /\ Len(cbRuns[e]) <= cbPut[e]
            /\ \A k \in 1..Len(cbRuns[e]) : cbRuns[e][k] = "loop")
    /\ [][\A e \in PlainGo : cbPut'[e] # cbPut[e] =>
             /\ goPc[e] \in {"returned", "panicked"} /\ e \notin fActive
             /\ e \in Range(fLog)]_vars
    /\ [][\A e \in PlainGo : cbRuns'[e] # cbRuns[e] =>
             /\ pcG = "idle" /\ pcG' = "cb" /\ curCb' = e
             /\ \/ ChanCb # <<>> /\ Head(ChanCb) = e /\ ChanCb' = Tail(ChanCb)
                \/ gCap = 0 /\ cbPut'[e] = cbPut[e] + 1]_vars
    /\ [][/\ pendingGo' > pendingGo => pendingGo' = pendingGo + 1 /\ nGo' = nGo + 1
          /\ nGo' # nGo => pendingGo' = pendingGo + 1
          /\ pendingGo' < pendingGo =>
                /\ pendingGo' = pendingGo - 1
                /\ pcG = "cb" /\ pcG' = "idle"
                /\ Len(cbRuns[curCb]) = 1]_vars

\* C24 witness: f of a Go.Go pair has ended, its cb was put on the channel
\* once and the loop has executed it; pendingGo is back at zero
C24_Witness ==
    /\ goKind[1] = "go" /\ nGo = 1
    /\ fLog = <<1>> /\ cbPut[1] = 1 /\ cbRuns[1] = <<"loop">>
    /\ pendingGo = 0 /\ pcG = "idle" /\ gCap = 1

\* the modules n, n - 1, ..., 1
Reverse(n) == [k \in 1..n |-> n + 1 - k]

\* C25: module.Destroy tears the registered modules down in reverse
\* registration order, one at a time: OnDestroy of a module is called only
\* after its Run has returned, and the close signal is sent to a module only
\* after OnDestroy of every module registered after it has ended.
C25_DestroyReverseOrder ==
    /\ [](/\ IsPrefix(sigLog, Reverse(nMods))
          /\ IsPrefix(onDestroyLog, sigLog)
          /\ Len(sigLog) <= Len(onDestroyLog) + 1)
    /\ [][onDestroyLog' # onDestroyLog =>
             /\ modRun[pcModDestroy.i] = "done"
             /\ onDestroyLog' = Append(onDestroyLog, pcModDestroy.i)]_vars
    /\ [][sigLog' # sigLog =>
             /\ sigLog' = Append(sigLog, pcModDestroy.i)
             /\ onDestroyDone = (pcModDestroy.i + 1)..nMods]_vars
    /\ [](pcModDestroy.at = "returned" => onDestroyDone = 1..nMods)

\* C25 witness: of two modules the second has been torn down and the close
\* signal has been sent to the first, whose Run is still executing
C25_Witness ==
    /\ nMods = 2 /\ sigLog = <<2, 1>> /\ onDestroyLog = <<2>>
    /\ onDestroyDone = {2} /\ modRun[1] = "running" /\ modRun[2] = "done"

\* C26: module.Init calls OnInit of every registered module in registration
\* order; no goroutine run(m) is started before the OnInit of every module
\* has returned; every Run is started once, in a goroutine of its own that
\* Init does not wait for.
C26_InitOrder ==
    /\ [](IsPrefix(onInitLog, [k \in 1..nMods |-> k]))
    /\ [][runStarts' # runStarts =>
             /\ onInitLog = [k \in 1..nMods |-> k]
             /\ pcModInit.at = "start"
             /\ runStarts' = [runStarts EXCEPT ![pcModInit.i] = 1]
             /\ modRun[pcModInit.i] = "none"]_vars
    /\ [](\A m \in 1..nMods : runStarts[m] <= 1)
    /\ [](pcModInit.at = "returned" => \A m \in 1..nMods : runStarts[m] = 1)
    /\ [](pcModInit.at = "start" => ENABLED InitStart)

\* C26 witness: Init has returned and the Run of both modules is executing
C26_Witness ==
    /\ nMods = 2 /\ pcModInit.at = "returned" /\ onInitLog = <<1, 2>>
    /\ modRun[1] = "running" /\ modRun[2] = "running"

(***************************************************************************)
(* Properties of the message parser (SpecParser).                          *)
(***************************************************************************)
\* the payload of the last Write: its buffers one after the other
WrittenPayload == Concat(pWrote.args)

\* the length of the payload lies between the limits of the parser
InLimits(n) == NumLeq(parser.minMsgLen, n) /\ NumLeq(n, parser.maxMsgLen)

\* C27: for every configuration of the parser and every payload whose length
\* lies between minMsgLen and maxMsgLen, Write hands one buffer to the
\* connection, and Read with the same configuration on that buffer returns
\* exactly the payload, the written buffers one after the other; with a
\* length field of 2 bytes, most significant byte first, the payload
\* 41 42 43 is handed over as 00 03 41 42 43.
C27_RoundTrip ==
    (pWrote.op = "Write" /\ InLimits(SLen(WrittenPayload))) =>
        /\ pWrote.err = "nil"
        /\ Len(pWrote.handed) = 1
        /\ MsgRead(parser, pWrote.handed[1]) = [err |-> "nil", data |-> WrittenPayload]
        /\ (/\ parser.lenMsgLen = 2 /\ ~parser.littleEndian
            /\ WrittenPayload = Bytes(<<65, 66, 67>>)
            => pWrote.handed[1] = Bytes(<<0, 3, 65, 66, 67>>))

\* the round trip of C27 for the payloads whose length and the length field
\* together stay below 2^32
RoundTripBelowOverflow ==
    (/\ pWrote.op = "Write" /\ InLimits(SLen(WrittenPayload))
     /\ NumLeq(NumAdd(Num(parser.lenMsgLen), SLen(WrittenPayload)), MaxUint32)) =>
        /\ pWrote.err = "nil"
        /\ Len(pWrote.handed) = 1
        /\ MsgRead(parser, pWrote.handed[1]) = [err |-> "nil", data |-> WrittenPayload]
        /\ (/\ parser.lenMsgLen = 2 /\ ~parser.littleEndian
            /\ WrittenPayload = Bytes(<<65, 66, 67>>)
            => pWrote.handed[1] = Bytes(<<0, 3, 65, 66, 67>>))

\* a Write of 41 42 43 in two buffers through the parser as NewMsgParser
\* made it, and its buffer read by the peer
RoundTripWitness ==
    /\ parser = NewMsgParser
    /\ pWrote.op = "Write" /\ Len(pWrote.args) = 2
    /\ pWrote.handed = <<Bytes(<<0, 3, 65, 66, 67>>)>>
    /\ pReadRes = [op |-> "Read", err |-> "nil", data |-> Bytes(<<65, 66, 67>>)]

\* the step is a call of Write
IsParserWrite == nWrites' = nWrites + 1

\* C28: a Write whose payload is longer than maxMsgLen returns the error
\* "message too long" and a Write whose payload is shorter than minMsgLen
\* returns "message too short"; in both cases nothing is handed to the
\* connection, whose write queue and closed flag stay as they were.
C28_LengthErrors ==
    [][IsParserWrite =>
        LET n == SLen(Concat(pWrote'.args))
        IN  /\ NumLess(parser.maxMsgLen, n) => pWrote'.err = "message too long"
            /\ NumLess(n, parser.minMsgLen) => pWrote'.err = "message too short"
            /\ (NumLess(parser.maxMsgLen, n) \/ NumLess(n, parser.minMsgLen)) =>
                   /\ pWrote'.handed = <<>>
                   /\ pConn'.writeChan = pConn.writeChan
                   /\ pConn'.closeFlag = pConn.closeFlag]_vars

\* what Write does keep: the error is decided by the payload length taken
\* modulo 2^32, "too long" before "too short", and a Write that returns an
\* error or panics hands nothing over and leaves the connection as it was
LengthErrorsModulo ==
    [][IsParserWrite =>
        LET n == Uint32(SLen(Concat(pWrote'.args)))
        IN  /\ NumLess(parser.maxMsgLen, n) => pWrote'.err = "message too long"
            /\ (NumLess(n, parser.minMsgLen) /\ NumLeq(n, parser.maxMsgLen))
                   => pWrote'.err = "message too short"
            /\ pWrote'.err \in {"nil", "panic"} => InLimits(n)
            /\ pWrote'.err # "nil" => pWrote'.handed = <<>> /\ pConn' = pConn]_vars

\* C29: after NewMsgParser and any calls of SetMsgLen, whatever their
\* arguments, lenMsgLen is 1, 2 or 4 and
\* minMsgLen <= maxMsgLen <= 2^(8 * lenMsgLen) - 1.
C29_LimitsOrdered ==
    /\ parser.lenMsgLen \in {1, 2, 4}
    /\ NumLeq(parser.minMsgLen, parser.maxMsgLen)
    /\ NumLeq(parser.maxMsgLen, MaxOf(parser.lenMsgLen))

\* what SetMsgLen does keep: the width is 1, 2 or 4 and neither limit
\* exceeds what the length field can hold, the minimum being at least 1
LimitsFitLengthField ==
    /\ parser.lenMsgLen \in {1, 2, 4}
    /\ NumLeq(Num(1), parser.minMsgLen)
    /\ NumLeq(parser.minMsgLen, MaxOf(parser.lenMsgLen))
    /\ NumLeq(parser.maxMsgLen, MaxOf(parser.lenMsgLen))

(***************************************************************************)
(* Properties of the cron expression (FairSpecCron).                       *)
(***************************************************************************)
\* C30: for every expression and every instant t, Next(t) ends and returns
\* an instant later than t or the zero instant, and it returns the zero
\* instant when the search reaches a year that exceeds the year of t by
\* more than one.
C30_NextLaterOrZeroInputYear ==
    /\ <>(pcNext = "done")
    /\ [](pcNext = "done" => cRes = ZeroTime \/ Later(cRes, cT0))
    /\ []((pcNext # "start" /\ cT.year > cT0.year + 1) =>
              pcNext = "retry" \/ (pcNext = "done" /\ cRes = ZeroTime))

\* C30, amended: for every expression and every instant t, Next(t) ends and
\* returns an instant later than t or the zero instant; it returns the zero
\* instant exactly when the search reaches a year that exceeds by more than
\* one the year of the second that follows t, which is the year after the
\* year of t when t lies in the last second of a year.
C30_NextLaterOrZero ==
    /\ <>(pcNext = "done")
    /\ [](pcNext = "done" => cRes = ZeroTime \/ Later(cRes, cT0))
    /\ [](pcNext # "start" => cYear = AddSecond([cT0 EXCEPT !.nsec = 0]).year)
    /\ []((pcNext # "start" /\ cT.year > cYear + 1) =>
              pcNext = "retry" \/ (pcNext = "done" /\ cRes = ZeroTime))
    /\ []((pcNext = "done" /\ cRes = ZeroTime) => cT.year > cYear + 1)

\* C30 witness: called with the last half second of 2022 for 29 February,
\* Next has returned 29 February 2024, 00:00:00
C30_Witness ==
    /\ pcNext = "done"
    /\ cT0 = Date(2022, 12, 31, 23, 59, 59, 500000000)
    /\ cExpr.dom = {29} /\ cExpr.month = {2} /\ cExpr.dow = 0..6
    /\ cRes = Date(2024, 2, 29, 0, 0, 0, 0)

\* called for 31 February, Next has given up in January of the second year
\* after the year of t and returned the zero instant
NextGivesUp ==
    /\ pcNext = "done"
    /\ cT0 = Date(2023, 3, 1, 0, 0, 0, 0)
    /\ cExpr.dom = {31} /\ cExpr.month = {2} /\ cExpr.dow = 0..6
    /\ cT = Date(2025, 1, 1, 0, 0, 0, 0)
    /\ cRes = ZeroTime

(***************************************************************************)
(* C31.  The result of Next matches the expression and is the smallest.    *)
(***************************************************************************)
\* the instant t matches the expression e in second, minute, hour, day and month
Matches(e, t) ==
    /\ t.nsec = 0
    /\ t.sec \in e.sec
    /\ t.min \in e.min
    /\ t.hour \in e.hour
    /\ t.month \in e.month
    /\ matchDay(e, t)

\* some tuple of the product of the sets S[1], S[2], ... is at or after lo
\* (when fromLo) and before hi (when toHi), in lexicographic order
RECURSIVE Between(_, _, _, _, _)
Between(S, lo, hi, fromLo, toHi) ==
    IF S = <<>> THEN ~toHi
    ELSE \E v \in Head(S) :
             /\ fromLo => v >= Head(lo)
             /\ toHi => v <= Head(hi)
             /\ Between(Tail(S), Tail(lo), Tail(hi),
                        fromLo /\ v = Head(lo), toHi /\ v = Head(hi))

\* a whole-second instant of the location of s that matches e, at or after
\* s and before r
MatchBetween(e, s, r) ==
    \E y \in s.year..r.year, mo \in e.month :
        \E d \in 1..DaysIn(y, mo) :
            LET u == In(Date(y, mo, d, 0, 0, 0, 0), s.zone)
            IN  /\ matchDay(e, u)
                /\ Between(<<{y}, {mo}, {d}, e.hour, e.min, e.sec>>,
                           <<s.year, s.month, s.day, s.hour, s.min, s.sec>>,
                           <<r.year, r.month, r.day, r.hour, r.min, r.sec>>,
                           TRUE, TRUE)

\* the first whole second strictly after t
SecondAfter(t) == AddSecond([t EXCEPT !.nsec = 0])

\* C31: when Next returns an instant that is not the zero instant, the instant
\* matches the expression in second, minute, hour, day and month, and no
\* whole-second instant strictly after t and before it matches the expression
C31_NextMatchesAndSmallest ==
    (pcNext = "done" /\ cRes # ZeroTime)
        => /\ Matches(cExpr, cRes)
           /\ ~MatchBetween(cExpr, SecondAfter(cT0), cRes)

\* the same for the calls with an instant of a location whose offset from UTC
\* is a whole number of hours
NextSmallestWholeHourZone ==
    (pcNext = "done" /\ cRes # ZeroTime /\ cT0.zone % 60 = 0)
        => /\ Matches(cExpr, cRes)
           /\ ~MatchBetween(cExpr, SecondAfter(cT0), cRes)

\* the result of Next always matches the expression
NextResultMatches ==
    (pcNext = "done" /\ cRes # ZeroTime) => Matches(cExpr, cRes)

(***************************************************************************)
(* C40.  Day matching and the ways of writing the two day fields.          *)
(***************************************************************************)
\* the day of t matches as the fields are written: when exactly one of
\* day-of-month and day-of-week was left as "*" only the other is honored,
\* otherwise either of them matches
DayMatchesAsWritten(fields, e, t) ==
    LET domStar == fields[4] = Star
        dowStar == fields[6] = Star
    IN  IF domStar /\ ~dowStar THEN Weekday(t) \in e.dow
        ELSE IF dowStar /\ ~domStar THEN t.day \in e.dom
        ELSE Weekday(t) \in e.dow \/ t.day \in e.dom

\* C40: matchDay answers by the disjunction of day-of-month and day-of-week
\* unless exactly one of the two fields was left as "*", and then by the
\* other field alone, however the fields are written (1-31 and 0-6 included)
C40_MatchDayAsWritten ==
    pcNext = "matched" => cMatch = DayMatchesAsWritten(cFields, cExpr, cT0)

\* a field that sets every bit of its range stands for "*"
FullRange(fields) ==
    <<IF cExpr.dom = 1..31 THEN Star ELSE fields[4], IF cExpr.dow = 0..6 THEN Star ELSE fields[6]>>

\* matchDay answers as written once every field that covers its whole range
\* is read as "*"
MatchDayByMask ==
    pcNext = "matched"
        => cMatch = DayMatchesAsWritten([cFields EXCEPT ![4] = FullRange(cFields)[1],
                                                        ![6] = FullRange(cFields)[2]],
                                        cExpr, cT0)

\* a field with a list, an increment, or a range parses to the bits it names
ParsedFields ==
    pcNext = "match"
        => /\ cFields[4] = <<R(1, 15), R(16, 31)>> => cExpr.dom = 1..31
           /\ cFields[4] = <<Every(All, 2)>> => cExpr.dom = {i \in 1..31 : i % 2 = 1}
           /\ cFields[4] = <<Every(N(30), 1)>> => cExpr.dom = {30, 31}
           /\ cFields[6] = <<Every(N(1), 2)>> => cExpr.dow = {1, 3, 5}

\* fields out of their range, with a reversed range, a zero increment or a
\* range from "*" are refused
InvalidFields ==
    pcNext \in {"match", "matched"}
        => /\ cFields[4] \notin {<<R(0, 31)>>, <<R(31, 1)>>, <<Every(All, 0)>>}
           /\ cFields[6] \notin {<<N(7)>>, <<[All EXCEPT !.range = TRUE, !.hi = 3]>>}

(***************************************************************************)
(* C35, C36.  The firings of a Cron and Cron.Stop.                         *)
(***************************************************************************)
\* the places of an event in the history of the Cron
At(ev) == {i \in 1..Len(cronLog) : cronLog[i] = ev}

\* C35, as stated: on each firing the user callback is invoked first, and the
\* next timer is scheduled only after it has run
C35_UserCallbackThenSchedule ==
    \A t \in Timers : \A i \in At(<<"sched", t>>) : \E j \in At(<<"user", t>>) : j < i

\* C35, amended: on each firing the next fire time is computed and, unless it
\* is the zero instant, the next timer is scheduled first; the user callback
\* is invoked right after, in every firing, before Timer.Cb ends
C35_ScheduleThenUserCallback ==
    /\ \A t \in Timers : \A i \in At(<<"user", t>>) :
           i > 1 /\ cronLog[i - 1] \in {<<"sched", t>>, <<"zero", t>>}
    /\ \A t \in Timers : \A i \in At(<<"sched", t>>) : \A j \in At(<<"user", t>>) : i < j
    /\ \A t \in Timers :
           (tCalls[t] > 0 /\ ~(curT = t /\ pcT \in {"next", "deferred"}))
               => At(<<"user", t>>) # {}
    /\ \A t \in Timers : Cardinality(At(<<"user", t>>)) <= 1

\* a firing has scheduled the next timer and then invoked the user callback,
\* and a later firing with no next time has invoked it too
C35_Witness ==
    /\ pcT = "idle"
    /\ \E i \in At(<<"sched", 1>>) : cronLog[i + 1] = <<"user", 1>>
    /\ \E i \in At(<<"zero", 2>>) : cronLog[i + 1] = <<"user", 2>>

\* C36: after Cron.Stop the user callback is never invoked again and no
\* further timer is scheduled for the cron, whether Stop was called from the
\* loop or from inside the user callback, and also when a timer of the cron
\* had expired and waits in the channel of the dispatcher
C36_NothingAfterCronStop ==
    /\ \A i \in At(<<"Stop", 0>>) : \A j \in (i + 1)..Len(cronLog) :
           cronLog[j][1] \notin {"user", "sched", "zero"}
    /\ [][At(<<"Stop", 0>>) # {} /\ pcT = "idle"
             => UNCHANGED <<nTimers, tCalls, cronLog>>]_vars

\* Stop was called from inside the user callback after the next timer was
\* scheduled, that timer had expired and has been taken from the channel of
\* the dispatcher, and its callback was not invoked
C36_Witness ==
    /\ \E i \in At(<<"Stop", 0>>) : cronLog[i - 1] = <<"user", 1>>
    /\ tmCap > 0
    /\ tClock[2] = "sent" /\ ChanTimer = <<>> /\ pcT = "idle"
    /\ tCalls[2] = 0

\* Stop was called from the loop while the expired timer of the cron waited
\* in the channel of the dispatcher
StopWithTimerInChannel ==
    /\ \E i \in At(<<"Stop", 0>>) : cronLog[i - 1] = <<"CronFunc", 1>>
    /\ ChanTimer = <<1>>

(***************************************************************************)
(* C32.  The callback of an AsynCall is invoked exactly once.              *)
(***************************************************************************)
\* the places in the history of callbacks where the callback of call u was invoked
CbCalls(u) == {i \in 1..Len(cbLog) : cbLog[i].uid = u}

\* AsynCall has just been called and gave its call the uid u
AsynCallOf(u) == lastR.op = "AsynCall" /\ lastR.uid = u

\* the function of call u ended in a panic with a nil value
NilPanic(u) == \E i \in 1..Len(runs[u]) : runs[u][i].ending = "panicsNil"

\* C32: the callback of every AsynCall is invoked exactly once, at once on
\* overflow and otherwise through the client's async-reply queue, however
\* the call ends: executed, panicked, refused for its id or shape, request
\* queue full, or server closed before the execution
C32_CallbackExactlyOnce ==
    /\ [](\A u \in Uids : Cardinality(CbCalls(u)) <= 1)
    /\ \A u \in Uids : AsynCallOf(u) ~> (CbCalls(u) # {})

\* the same for the calls whose function does not panic with a nil value
CallbackOnceUnlessNilPanic ==
    /\ [](\A u \in Uids : Cardinality(CbCalls(u)) <= 1)
    /\ \A u \in Uids : AsynCallOf(u) ~> (CbCalls(u) # {} \/ NilPanic(u))

(***************************************************************************)
(* C33.  The bounds of pendingAsynCall and of the async-reply queue.       *)
(***************************************************************************)
\* the calls of the asynchronous client that the server holds and has not
\* answered: those in its request queue and the one it is executing
AwaitingReply ==
    Cardinality({i \in 1..Len(ChanCall) : ChanCall[i].chanRet = "asyn"})
    + (IF pcLoop \in {"exec", "ret"} /\ curCi.chanRet = "asyn" THEN 1 ELSE 0)

\* the server is about to send a reply to a call of the asynchronous client,
\* from Exec or from Close
AsynReplyDue ==
    \/ pcLoop = "ret" /\ curRi # NoRet /\ curCi.chanRet = "asyn"
    \/ pcLoop = "drain" /\ ChanCall # <<>> /\ Head(ChanCall).chanRet = "asyn"

\* C33: with a single task using the client, 0 <= pendingAsynCall <=
\* cap(ChanAsynRet), the replies waiting in ChanAsynRet plus the calls still
\* awaiting a reply never exceed the capacity, and so a reply of the server
\* to an asynchronous call, from Exec or from Close, always finds room
C33_AsynReplyNeverBlocks ==
    /\ 0 <= pendingAsynCall /\ pendingAsynCall <= aCap
    /\ Len(ChanAsynRet) + AwaitingReply <= aCap
    /\ Len(ChanAsynRet) + AwaitingReply <= pendingAsynCall
    /\ AsynReplyDue => Len(ChanAsynRet) < aCap
    /\ lastR.outcome # "blocked"

\* the counter is at the capacity and Close has answered the call that was
\* in the request queue: its reply fills the async-reply queue
C33_Witness ==
    /\ aCap = 1 /\ pendingAsynCall = 1
    /\ pcLoop \in {"drain", "returned"} /\ execd = <<>>
    /\ Len(ChanAsynRet) = 1 /\ ChanAsynRet[1].err = "server closed"

(***************************************************************************)
(* C34.  A synchronous call and the closed request queue.                  *)
(***************************************************************************)
\* the synchronous call u of client c is at its send and the request queue
\* is closed: the call was issued after the close, or was still waiting to
\* enqueue when the queue was closed
AtClosedQueue(c, u) == pcCall[c] = "send" /\ callCi[c].uid = u /\ rClosed

\* the call u of client c has returned the error of the send on the closed queue
ReturnedClosedError(c, u) ==
    /\ pcCall[c] = "idle"
    /\ lastRet[c].uid = u
    /\ lastRet[c].err = "send on closed channel"
    /\ u \in Range(retd[c])

\* C34: a synchronous call issued after the request queue was closed, or
\* still blocked on enqueuing when it is closed, returns a non-nil error: its
\* return is never blocked, no panic escapes to the caller, and nothing is
\* enqueued
C34_SyncCallOnClosedQueue ==
    /\ [](\A c \in SyncClients : \A u \in Uids :
             AtClosedQueue(c, u) => ENABLED (CallSend(c) /\ ReturnedClosedError(c, u)'))
    /\ [][\A c \in SyncClients :
             (pcCall[c] = "send" /\ rClosed /\ pcCall'[c] # "send")
                 => /\ ReturnedClosedError(c, callCi[c].uid)'
                    /\ lastR'.outcome = "recovered"
                    /\ UNCHANGED <<ChanCall, enq, chanSyncRet>>]_vars
    /\ [](\A c \in SyncClients : pcCall[c] \in {"idle", "send", "wait"})

\* with the callers scheduled fairly, the call at the closed queue returns
\* the error
SyncCallOnClosedQueueReturns ==
    \A c \in SyncClients : \A u \in Uids :
        AtClosedQueue(c, u) ~> ReturnedClosedError(c, u)

\* the request queue of capacity 1 held a call of Server.Go when it was
\* closed, and the synchronous call that could not enqueue has returned the
\* error
C34_Witness ==
    /\ rCap = 1 /\ enq = <<1>> /\ execd = <<>> /\ rClosed
    /\ \E c \in SyncClients : ReturnedClosedError(c, 2)
    /\ lastR = [op |-> "Call", outcome |-> "recovered", uid |-> 2]

\* the queue was closed while the synchronous call was blocked on enqueuing:
\* the last thing a caller did was the Go that filled the queue
BlockedWhenClosed ==
    /\ rCap = 1 /\ Len(ChanCall) = 1 /\ rClosed /\ pcLoop = "drain"
    /\ \E c \in SyncClients : AtClosedQueue(c, 1)
    /\ lastR = [op |-> "Go", outcome |-> "enqueued", uid |-> 2]

(***************************************************************************)
(* C38.  The callbacks of a LinearContext are enqueued in submission order.*)
(***************************************************************************)
\* the pairs submitted to the LinearContext
LinearPairs == {e \in 1..nGo : goKind[e] = "linear"}

\* the step sends the callback of pair e
CbSent(e) == cbPut'[e] # cbPut[e]

\* C38: the callbacks of the pairs submitted to one LinearContext are put on
\* the callback queue in submission order: each one once, after its own f
\* has ended, by return or by panic, and while the goroutine that ran f
\* still holds the execution mutex, which it releases only afterwards
C38_LinearCallbackOrder ==
    /\ [][\A e \in LinearPairs : CbSent(e) =>
             /\ cbPut[e] = 0 /\ cbPut'[e] = 1
             /\ e \in Range(fLog) /\ e \notin fActive
             /\ \A d \in LinearPairs : d < e => cbPut[d] = 1
             /\ mutexExecution # 0 /\ goPair[mutexExecution] = e
             /\ mutexExecution' = mutexExecution]_vars
    /\ [][(mutexExecution # 0 /\ mutexExecution' # mutexExecution) =>
             /\ mutexExecution' = 0
             /\ cbPut[goPair[mutexExecution]] = 1]_vars
    /\ [](\A i \in GoTasks :
             (goKind[i] = "linear" /\ goPc[i] \in {"locked", "running", "returned", "panicked", "sent"})
                 => mutexExecution = i)

\* the callbacks of two pairs of the LinearContext were sent in submission
\* order, the first by the goroutine started for the second pair; the
\* goroutine that ran the second f has sent its callback and still holds the
\* execution mutex
C38_Witness ==
    /\ goKind[1] = "linear" /\ goKind[2] = "linear"
    /\ goPair[2] = 1 /\ goPair[1] = 2
    /\ gCap >= 1 /\ cbPut[1] = 1 /\ cbPut[2] = 1
    /\ cbRuns[1] # <<>>
    /\ goPc[2] = "done" /\ goPc[1] = "sent"
    /\ mutexExecution = 1

\* the callback of a pair of the LinearContext is sent while the goroutine
\* of the next pair waits for the execution mutex
CbSentWhileNextWaits ==
    /\ \E i \in GoTasks : goKind[i] = "linear" /\ goPc[i] = "sent" /\ mutexExecution = i
    /\ \E j \in GoTasks : goKind[j] = "linear" /\ goPc[j] = "spawned"

(***************************************************************************)
(* C39.  A panic of OnDestroy is recovered inside Destroy.                 *)
(***************************************************************************)
\* C39: a panic of a module's OnDestroy does not leave Destroy: Destroy goes
\* on with the module registered before the panicking one, sends it the
\* close signal, waits for its Run and calls its OnDestroy, and so on down
\* to the first module, and then returns
C39_OnDestroyPanicRecovered ==
    /\ [][onDestroyPanics' # onDestroyPanics =>
             /\ pcModDestroy.at = "inOnDestroy"
             /\ onDestroyPanics' = onDestroyPanics \cup {pcModDestroy.i}
             /\ pcModDestroy' = IF pcModDestroy.i > 1
                                THEN [at |-> "send", i |-> pcModDestroy.i - 1]
                                ELSE [at |-> "returned", i |-> 0]]_vars
    /\ [](pcModDestroy.at \in {"idle", "send", "wait", "destroy", "inOnDestroy", "returned"})
    /\ [](\A m \in onDestroyPanics : \A k \in 1..(m - 1) :
             /\ k \in Range(onDestroyLog) => (k \in Range(sigLog) /\ modRun[k] = "done")
             /\ pcModDestroy.at = "returned" =>
                   (k \in Range(sigLog) /\ modRun[k] = "done" /\ k \in onDestroyDone))
    /\ [](\A m \in onDestroyPanics :
             (m > 1 /\ pcModDestroy.at = "send" /\ pcModDestroy.i = m - 1) => ENABLED DestroySend)

\* OnDestroy of the last of three modules has panicked; Destroy has sent the
\* close signal to the two modules before it, waited for them and called
\* their OnDestroy, the first of which panicked too, and has returned
C39_Witness ==
    /\ nMods = 3 /\ onDestroyPanics = {1, 3}
    /\ pcModDestroy.at = "returned"
    /\ sigLog = <<3, 2, 1>> /\ onDestroyLog = <<3, 2, 1>> /\ onDestroyDone = {1, 2, 3}

(***************************************************************************)
(* The calls of one agent on the server of the module.                     *)
(***************************************************************************)
\* the calls of the history h that carry the agent a, in the order of h
OfAgent(h, a) == SelectSeq(h, LAMBDA ci : ci.agent = a)

\* the messages 1..n of the agent a, in the order they were read
RECURSIVE MsgCalls(_, _)
MsgCalls(a, n) ==
    IF n = 0 THEN <<>> ELSE Append(MsgCalls(a, n - 1), GateCall(a, "msg", n))

\* NewAgent, then the messages the agent a has read, then CloseAgent
AgentCalls(a) ==
    <<GateCall(a, "NewAgent", 0)>> \o MsgCalls(a, gtAg[a].read) \o <<GateCall(a, "CloseAgent", 0)>>

\* the number of calls of the agent a whose send has been reached and left
CallsBegun(a) ==
    CASE gtAg[a].pc \in {"none", "new"} -> 0
      [] gtAg[a].pc = "route" -> gtAg[a].read
      [] gtAg[a].pc \in {"run", "onclose"} -> 1 + gtAg[a].read
      [] OTHER -> 2 + gtAg[a].read

\* C37: for every agent of the gate, the calls enqueued on the request queue
\* of the server are NewAgent, then the messages of the agent in the order
\* they were read, then CloseAgent (NewAgent before any message, CloseAgent
\* after all of them, none skipped while the server is open), and the module
\* executes them in that order: what it has executed for the agent is the
\* beginning of what was enqueued, and an agent whose CloseAgent was executed
\* has had the whole sequence executed.
C37_AgentCallsInOrder ==
    \A a \in Agents :
        /\ IsPrefix(OfAgent(gtEnq, a), AgentCalls(a))
        /\ IsPrefix(OfAgent(gtExec, a), OfAgent(gtEnq, a))
        /\ ~gtSrv.closed => Len(OfAgent(gtEnq, a)) = CallsBegun(a)
        /\ gtAg[a].reply = "executed" => OfAgent(gtExec, a) = AgentCalls(a)

\* the calls of two agents were interleaved on the queue, the first agent
\* has read two messages, and NewAgent, the messages and CloseAgent of both
\* agents were executed
C37_Witness ==
    /\ \A a \in 1..2 :
          /\ gtAg[a].pc = "done" /\ gtAg[a].reply = "executed"
          /\ OfAgent(gtExec, a) = AgentCalls(a)
    /\ gtAg[1].read = 2
    /\ gtExec[2].agent = 2 /\ gtExec[3].agent = 1
    /\ gtExec[Len(gtExec)].agent = 1

\* the server is closed while calls of an agent wait in the queue: they are
\* never executed, and the CloseAgent of the agent returns the error
CallsLostWhenServerCloses ==
    \E a \in Agents :
        /\ gtSrv.closed /\ gtAg[a].pc = "done" /\ gtAg[a].reply = "closed"
        /\ Len(OfAgent(gtExec, a)) < Len(OfAgent(gtEnq, a))
====
